---------------------------- MODULE Spec2Model ----------------------------
(***************************************************************************)
(* A model of the wheel-strategy core of wheel_backtest: the portfolio     *)
(* ledger (engine/portfolio.py), the option selector (engine/options.py)   *)
(* and the wheel state machine (engine/wheel.py).                          *)
(*                                                                         *)
(* Money is counted in whole units.  Quotes are drawn so that bid + ask is *)
(* even, which makes the mid price (bid + ask) / 2 a whole number; deltas  *)
(* and the out-of-the-money percentage are counted in hundredths.  Dates   *)
(* are day numbers.  An Optional value is a sequence: << >> is None and    *)
(* << x >> is the value x.                                                 *)
(***************************************************************************)
EXTENDS Integers, Sequences, FiniteSets, TLC

VARIABLES
    multiplier,   \* Portfolio.contract_multiplier
    contracts,    \* WheelStrategy.contracts_per_trade
    commission,   \* WheelStrategy.commission (per contract)
    cash,         \* Portfolio.cash
    shares,       \* Portfolio.shares
    positions,    \* Portfolio.option_positions, a list
    state,        \* WheelStrategy._state
    cost_basis,   \* WheelStrategy._cost_basis, Optional
    today,        \* the trade_date of the latest process_day call, 0 before the first
    last,         \* the latest call: its name, the error it raised, what it returned
    day_events,   \* the events the latest process_day call logged
    obs,          \* what the latest process_day call saw on its way (history variable)
    n_calls,      \* how many direct ledger calls were made (history variable)
    events,       \* WheelStrategy._events, the log of every event so far
    initial_cash, \* the cash the Portfolio was constructed with (history variable)
    backtest      \* the WheelBacktest that drives the strategy, << >> when there is none

vars == << multiplier, contracts, commission, cash, shares, positions, state,
           cost_basis, today, last, day_events, obs, n_calls, events, initial_cash,
           backtest >>

config == << multiplier, contracts, commission >>

----------------------------------------------------------------------------
(* Bounds of the exploration. *)

MaxDay == 3        \* trade dates are 1 .. MaxDay, and a run makes at most MaxDay calls
MaxCalls == 2      \* direct ledger calls in one run
DteMin == 1        \* selector dte_min (7 by default), in days of the exploration
DteTarget == 2     \* selector dte_target (30 by default), in days of the exploration

(* Program constants. *)

HardMultiplier == 100   \* the literal 100 of _sell_put and _sell_call
PutDelta == 20          \* selector put_delta, 0.20
CallDelta == 20         \* selector call_delta, 0.20
OtmPct == 5             \* selector otm_pct, 0.20 * 0.25 = 0.05

Multipliers == {50, 100, 200}
ContractCounts == {1, 2}
Commissions == {0, 1}
InitialCash == {0, 200}
Strikes == {1, 2}
Underlyings == {1, 2}
Quotes == { <<0, 0>>, <<0, 2>> }          \* << bid, ask >>
Dtes == {0, 1, 2}                          \* expiration - trade_date of a chain row
Deltas == {20}                            \* |delta| of a chain row that has one

None == << >>
Some(x) == << x >>
IsNone(o) == o = << >>
Val(o) == o[1]

PUT == "put"
CALL == "call"
SHORT == "short"
LONG == "long"

SELLING_PUTS == "selling_puts"
HOLDING_STOCK == "holding_stock"
SELLING_CALLS == "selling_calls"
WheelState == {SELLING_PUTS, HOLDING_STOCK, SELLING_CALLS}

Abs(x) == IF x < 0 THEN -x ELSE x
Max(a, b) == IF a >= b THEN a ELSE b

----------------------------------------------------------------------------
(* OptionPosition *)

is_short(pos) == pos.side = SHORT
is_put(pos) == pos.option_type = PUT
is_call(pos) == pos.option_type = CALL
is_expired(pos, current_date) == current_date >= pos.expiration
is_itm(pos, underlying_price) ==
    IF is_put(pos) THEN underlying_price < pos.strike
                   ELSE underlying_price > pos.strike
intrinsic_value(pos, underlying_price) ==
    IF is_put(pos) THEN Max(0, pos.strike - underlying_price)
                   ELSE Max(0, underlying_price - pos.strike)

(* list membership and list.remove compare dataclass instances by value *)
Contains(seq, x) == \E i \in DOMAIN seq : seq[i] = x
FirstIndex(seq, x) == CHOOSE i \in DOMAIN seq : seq[i] = x /\ \A j \in 1..(i - 1) : seq[j] # x
Remove(seq, x) ==
    LET k == FirstIndex(seq, x)
    IN  [i \in 1..(Len(seq) - 1) |-> IF i < k THEN seq[i] ELSE seq[i + 1]]

----------------------------------------------------------------------------
(* Portfolio.  A ledger L is [cash, shares, positions]; every operation    *)
(* returns [err, L, ret]: the error raised ("none" when it returned), the   *)
(* ledger afterwards and the returned value.                                *)

Ledger(c, s, p) == [cash |-> c, shares |-> s, positions |-> p]
Ok(L, r) == [err |-> "none", L |-> L, ret |-> r]
Raise(L, e) == [err |-> e, L |-> L, ret |-> None]

deposit(L, amount) ==
    IF amount < 0 THEN Raise(L, "Deposit amount must be positive")
    ELSE Ok([L EXCEPT !.cash = @ + amount], None)

(* withdraw that pays out what cash there is when asked for more           *)
withdraw_clamped(L, amount) ==
    IF amount < 0 THEN Raise(L, "Withdrawal amount must be positive")
    ELSE IF amount > L.cash THEN Ok([L EXCEPT !.cash = 0], None)
    ELSE Ok([L EXCEPT !.cash = @ - amount], None)

withdraw(L, amount) ==
    IF amount < 0 THEN Raise(L, "Withdrawal amount must be positive")
    ELSE IF amount > L.cash THEN Raise(L, "Insufficient cash")
    ELSE Ok([L EXCEPT !.cash = @ - amount], None)

buy_shares(L, quantity, price, comm) ==
    IF quantity <= 0 THEN Raise(L, "Quantity must be positive")
    ELSE LET total_cost == quantity * price + comm
         IN  IF total_cost > L.cash THEN Raise(L, "Insufficient cash")
             ELSE Ok([L EXCEPT !.cash = @ - total_cost, !.shares = @ + quantity],
                     Some(total_cost))

sell_shares(L, quantity, price, comm) ==
    IF quantity <= 0 THEN Raise(L, "Quantity must be positive")
    ELSE IF quantity > L.shares THEN Raise(L, "Insufficient shares")
    ELSE LET proceeds == quantity * price - comm
         IN  Ok([L EXCEPT !.cash = @ + proceeds, !.shares = @ - quantity],
                Some(proceeds))

(* open_short_option that credits the whole premium and forgets the       *)
(* commission                                                              *)
open_short_option_gross(L, option_type, strike, expiration, quantity, premium_per_share, trade_date, underlying_price, delta, comm) ==
    IF quantity <= 0 THEN Raise(L, "Quantity must be positive")
    ELSE LET total_premium == premium_per_share * quantity * multiplier
             net_credit == total_premium
             position == [option_type |-> option_type,
                          side |-> SHORT,
                          strike |-> strike,
                          expiration |-> expiration,
                          quantity |-> quantity,
                          entry_price |-> premium_per_share,
                          entry_date |-> trade_date,
                          underlying_price_at_entry |-> underlying_price,
                          delta_at_entry |-> delta]
         IN  Ok([L EXCEPT !.cash = @ + net_credit,
                          !.positions = Append(@, position)],
                Some(position))

open_short_option(L, option_type, strike, expiration, quantity, premium_per_share, trade_date, underlying_price, delta, comm) ==
    IF quantity <= 0 THEN Raise(L, "Quantity must be positive")
    ELSE LET total_premium == premium_per_share * quantity * multiplier
             net_credit == total_premium - comm
             position == [option_type |-> option_type,
                          side |-> SHORT,
                          strike |-> strike,
                          expiration |-> expiration,
                          quantity |-> quantity,
                          entry_price |-> premium_per_share,
                          entry_date |-> trade_date,
                          underlying_price_at_entry |-> underlying_price,
                          delta_at_entry |-> delta]
         IN  Ok([L EXCEPT !.cash = @ + net_credit,
                          !.positions = Append(@, position)],
                Some(position))

close_option_position(L, position, close_price, comm) ==
    IF ~Contains(L.positions, position) THEN Raise(L, "Position not found in portfolio")
    ELSE IF is_short(position)
         THEN LET total_cost == close_price * position.quantity * multiplier
                  pnl == (position.entry_price - close_price) * position.quantity
                             * multiplier - comm
              IN  Ok([L EXCEPT !.cash = @ - (total_cost + comm),
                               !.positions = Remove(@, position)], Some(pnl))
         ELSE LET total_proceeds == close_price * position.quantity * multiplier
                  pnl == (close_price - position.entry_price) * position.quantity
                             * multiplier - comm
              IN  Ok([L EXCEPT !.cash = @ + (total_proceeds - comm),
                               !.positions = Remove(@, position)], Some(pnl))

(* expire_option_worthless that reports the P&L and leaves the position   *)
(* open                                                                    *)
expire_option_worthless_keeps_position(L, position) ==
    IF ~Contains(L.positions, position) THEN Raise(L, "Position not found in portfolio")
    ELSE LET pnl == IF is_short(position)
                    THEN position.entry_price * position.quantity * multiplier
                    ELSE -(position.entry_price * position.quantity * multiplier)
         IN  Ok(L, Some(pnl))

expire_option_worthless(L, position) ==
    IF ~Contains(L.positions, position) THEN Raise(L, "Position not found in portfolio")
    ELSE LET pnl == IF is_short(position)
                    THEN position.entry_price * position.quantity * multiplier
                    ELSE -(position.entry_price * position.quantity * multiplier)
         IN  Ok([L EXCEPT !.positions = Remove(@, position)], Some(pnl))

(* exercise_put_assignment delivering 100 shares a contract whatever the   *)
(* ledger's multiplier                                                     *)
exercise_put_assignment_fixed100(L, position, underlying_price) ==
    IF ~is_put(position) \/ ~is_short(position)
    THEN Raise(L, "Can only exercise assignment on short puts")
    ELSE IF ~Contains(L.positions, position)
    THEN Raise(L, "Position not found in portfolio")
    ELSE LET shares_to_buy == position.quantity * HardMultiplier
             cost == position.strike * shares_to_buy
             intrinsic_loss == (position.strike - underlying_price) * shares_to_buy
             pnl == position.entry_price * shares_to_buy - intrinsic_loss
         IN  IF cost > L.cash THEN Raise(L, "Insufficient cash for assignment")
             ELSE Ok([L EXCEPT !.cash = @ - cost,
                               !.shares = @ + shares_to_buy,
                               !.positions = Remove(@, position)], Some(pnl))

(* exercise_put_assignment charging the cost basis, strike less premium,   *)
(* instead of the strike                                                   *)
exercise_put_assignment_net_of_premium(L, position, underlying_price) ==
    IF ~is_put(position) \/ ~is_short(position)
    THEN Raise(L, "Can only exercise assignment on short puts")
    ELSE IF ~Contains(L.positions, position)
    THEN Raise(L, "Position not found in portfolio")
    ELSE LET shares_to_buy == position.quantity * multiplier
             cost == (position.strike - position.entry_price) * shares_to_buy
             intrinsic_loss == (position.strike - underlying_price) * shares_to_buy
             pnl == position.entry_price * shares_to_buy - intrinsic_loss
         IN  IF cost > L.cash THEN Raise(L, "Insufficient cash for assignment")
             ELSE Ok([L EXCEPT !.cash = @ - cost,
                               !.shares = @ + shares_to_buy,
                               !.positions = Remove(@, position)], Some(pnl))

(* exercise_put_assignment that leaves the assigned put among the open    *)
(* positions                                                               *)
exercise_put_assignment_keeps_position(L, position, underlying_price) ==
    IF ~is_put(position) \/ ~is_short(position)
    THEN Raise(L, "Can only exercise assignment on short puts")
    ELSE IF ~Contains(L.positions, position)
    THEN Raise(L, "Position not found in portfolio")
    ELSE LET shares_to_buy == position.quantity * multiplier
             cost == position.strike * shares_to_buy
             intrinsic_loss == (position.strike - underlying_price) * shares_to_buy
             pnl == position.entry_price * shares_to_buy - intrinsic_loss
         IN  IF cost > L.cash THEN Raise(L, "Insufficient cash for assignment")
             ELSE Ok([L EXCEPT !.cash = @ - cost,
                               !.shares = @ + shares_to_buy], Some(pnl))

exercise_put_assignment(L, position, underlying_price) ==
    IF ~is_put(position) \/ ~is_short(position)
    THEN Raise(L, "Can only exercise assignment on short puts")
    ELSE IF ~Contains(L.positions, position)
    THEN Raise(L, "Position not found in portfolio")
    ELSE LET shares_to_buy == position.quantity * multiplier
             cost == position.strike * shares_to_buy
             intrinsic_loss == (position.strike - underlying_price) * shares_to_buy
             pnl == position.entry_price * shares_to_buy - intrinsic_loss
         IN  IF cost > L.cash THEN Raise(L, "Insufficient cash for assignment")
             ELSE Ok([L EXCEPT !.cash = @ - cost,
                               !.shares = @ + shares_to_buy,
                               !.positions = Remove(@, position)], Some(pnl))

(* exercise_call_assignment selling the shares at the market price, not at *)
(* the strike                                                              *)
exercise_call_assignment_at_market(L, position, underlying_price) ==
    IF ~is_call(position) \/ ~is_short(position)
    THEN Raise(L, "Can only exercise assignment on short calls")
    ELSE IF ~Contains(L.positions, position)
    THEN Raise(L, "Position not found in portfolio")
    ELSE LET shares_to_sell == position.quantity * multiplier
             proceeds == underlying_price * shares_to_sell
             pnl == position.entry_price * shares_to_sell
         IN  IF shares_to_sell > L.shares THEN Raise(L, "Insufficient shares for assignment")
             ELSE Ok([L EXCEPT !.cash = @ + proceeds,
                               !.shares = @ - shares_to_sell,
                               !.positions = Remove(@, position)], Some(pnl))

exercise_call_assignment(L, position, underlying_price) ==
    IF ~is_call(position) \/ ~is_short(position)
    THEN Raise(L, "Can only exercise assignment on short calls")
    ELSE IF ~Contains(L.positions, position)
    THEN Raise(L, "Position not found in portfolio")
    ELSE LET shares_to_sell == position.quantity * multiplier
             proceeds == position.strike * shares_to_sell
             pnl == position.entry_price * shares_to_sell
         IN  IF shares_to_sell > L.shares THEN Raise(L, "Insufficient shares for assignment")
             ELSE Ok([L EXCEPT !.cash = @ + proceeds,
                               !.shares = @ - shares_to_sell,
                               !.positions = Remove(@, position)], Some(pnl))

get_short_puts(L) == SelectSeq(L.positions, LAMBDA p : is_put(p) /\ is_short(p))
get_short_calls(L) == SelectSeq(L.positions, LAMBDA p : is_call(p) /\ is_short(p))

RECURSIVE reserved_from(_, _)
reserved_from(held, i) ==
    IF i > Len(held) THEN 0
    ELSE (IF is_put(held[i]) /\ is_short(held[i])
          THEN held[i].strike * held[i].quantity * multiplier ELSE 0)
         + reserved_from(held, i + 1)

(* get_buying_power without the floor at zero                              *)
get_buying_power_unfloored(L) == L.cash - reserved_from(L.positions, 1)

get_buying_power(L) == Max(0, L.cash - reserved_from(L.positions, 1))

(* get_equity without mark prices: every position at its intrinsic value  *)
RECURSIVE options_value_from(_, _, _)
options_value_from(held, i, underlying_price) ==
    IF i > Len(held) THEN 0
    ELSE LET position_value == intrinsic_value(held[i], underlying_price)
                                   * held[i].quantity * multiplier
         IN  (IF is_short(held[i]) THEN -position_value ELSE position_value)
             + options_value_from(held, i + 1, underlying_price)

(* get_equity that leaves the open options out, as the equity curve of    *)
(* the orchestrator does                                                   *)
get_equity_without_options(L, underlying_price) ==
    LET stock_value == L.shares * underlying_price
    IN  L.cash + stock_value

get_equity(L, underlying_price) ==
    LET stock_value == L.shares * underlying_price
        options_value == options_value_from(L.positions, 1, underlying_price)
    IN  L.cash + stock_value + options_value

----------------------------------------------------------------------------
(* OptionSelector.  A chain is [has_delta, rows]: whether the DataFrame has *)
(* a delta column, and its rows in order, each [expiration, strike,         *)
(* option_type, bid, ask, delta] with delta Optional (None is a null).      *)

put_delta == Some(PutDelta)
call_delta == Some(CallDelta)

(* sorted(...unique()) of a set of numbers *)
RECURSIVE Sorted(_)
Sorted(S) ==
    IF S = {} THEN << >>
    ELSE LET lo == CHOOSE x \in S : \A y \in S : x <= y
         IN  << lo >> \o Sorted(S \ {lo})

(* the first element of a non-empty list with the least key (key[i] is the  *)
(* key of seq[i]): what a stable sort followed by [0], and what idxmin,    *)
(* pick                                                                    *)
FirstMin(seq, key) ==
    LET k == CHOOSE i \in DOMAIN seq :
                 /\ \A j \in DOMAIN seq : key[i] <= key[j]
                 /\ \A j \in 1..(i - 1) : key[j] > key[i]
    IN  seq[k]

(* select_expiration that takes the nearest of the valid expirations      *)
(* closest to the target when two are equally close                       *)
select_expiration_nearest(available_expirations, trade_date) ==
    IF available_expirations = << >> THEN None
    ELSE LET valid_exps == SelectSeq(available_expirations,
                                     LAMBDA exp : exp - trade_date >= DteMin)
         IN  IF valid_exps = << >> THEN None
             ELSE Some(FirstMin(valid_exps,
                                [i \in DOMAIN valid_exps |->
                                    2 * Abs((valid_exps[i] - trade_date) - DteTarget)
                                    + (IF valid_exps[i] - trade_date > DteTarget
                                       THEN 1 ELSE 0)]))

select_expiration(available_expirations, trade_date) ==
    IF available_expirations = << >> THEN None
    ELSE LET valid_exps == SelectSeq(available_expirations,
                                     LAMBDA exp : exp - trade_date >= DteMin)
         IN  IF valid_exps = << >> THEN None
             ELSE Some(FirstMin(valid_exps,
                                [i \in DOMAIN valid_exps |->
                                    Abs((valid_exps[i] - trade_date) - DteTarget)]))

select_put_strike(underlying_price, available_strikes) ==
    IF available_strikes = << >> THEN None
    ELSE LET target_strike == underlying_price * (100 - OtmPct)    \* in hundredths
             valid_strikes == SelectSeq(available_strikes,
                                        LAMBDA s : s <= underlying_price)
         IN  IF valid_strikes = << >> THEN None
             ELSE Some(FirstMin(valid_strikes,
                                [i \in DOMAIN valid_strikes |->
                                    Abs(valid_strikes[i] * 100 - target_strike)]))

select_call_strike(underlying_price, available_strikes, basis) ==
    IF available_strikes = << >> THEN None
    ELSE LET otm_target == underlying_price * (100 + OtmPct)       \* in hundredths
             target_strike == IF IsNone(basis) THEN otm_target
                              ELSE Max(otm_target, Val(basis) * 100)
             valid_strikes == SelectSeq(available_strikes,
                                        LAMBDA s : s >= underlying_price)
         IN  IF valid_strikes = << >> THEN None
             ELSE Some(FirstMin(valid_strikes,
                                [i \in DOMAIN valid_strikes |->
                                    Abs(valid_strikes[i] * 100 - target_strike)]))

(* select_strike_by_delta that does not hold calls to the cost basis      *)
select_strike_by_delta_no_basis(has_delta, rows, option_type, target_delta, underlying_price, basis) ==
    IF rows = << >> \/ ~has_delta THEN None
    ELSE LET with_delta == SelectSeq(rows, LAMBDA r : ~IsNone(r.delta))
             target_signed_delta == IF option_type = PUT THEN -Abs(target_delta)
                                    ELSE Abs(target_delta)
             valid_options == IF option_type = PUT
                              THEN SelectSeq(with_delta, LAMBDA r : r.strike <= underlying_price)
                              ELSE SelectSeq(with_delta, LAMBDA r : r.strike >= underlying_price)
         IN  IF with_delta = << >> \/ valid_options = << >> THEN None
             ELSE Some(FirstMin(valid_options,
                                [i \in DOMAIN valid_options |->
                                    Abs(Val(valid_options[i].delta) - target_signed_delta)]).strike)

select_strike_by_delta(has_delta, rows, option_type, target_delta, underlying_price, basis) ==
    IF rows = << >> \/ ~has_delta THEN None
    ELSE LET with_delta == SelectSeq(rows, LAMBDA r : ~IsNone(r.delta))
             target_signed_delta == IF option_type = PUT THEN -Abs(target_delta)
                                    ELSE Abs(target_delta)
             on_side == IF option_type = PUT
                        THEN SelectSeq(with_delta, LAMBDA r : r.strike <= underlying_price)
                        ELSE SelectSeq(with_delta, LAMBDA r : r.strike >= underlying_price)
             valid_options == IF option_type = CALL /\ ~IsNone(basis)
                              THEN SelectSeq(on_side, LAMBDA r : r.strike >= Val(basis))
                              ELSE on_side
         IN  IF with_delta = << >> \/ valid_options = << >> THEN None
             ELSE Some(FirstMin(valid_options,
                                [i \in DOMAIN valid_options |->
                                    Abs(Val(valid_options[i].delta) - target_signed_delta)]).strike)

fallback_strike(exp_chain, option_type, underlying_price, basis) ==
    LET strikes == Sorted({exp_chain[i].strike : i \in DOMAIN exp_chain})
    IN  IF option_type = PUT THEN select_put_strike(underlying_price, strikes)
        ELSE select_call_strike(underlying_price, strikes, basis)

(* select_option_from_chain that, given no rows, makes up the at-the-money  *)
(* option at the target expiration instead of returning None               *)
select_option_from_chain_made_up(chain, option_type, underlying_price, trade_date, basis) ==
    LET type_chain == SelectSeq(chain.rows, LAMBDA r : r.option_type = option_type)
        expirations == Sorted({type_chain[i].expiration : i \in DOMAIN type_chain})
        selected_exp == select_expiration(expirations, trade_date)
        exp_chain == SelectSeq(type_chain, LAMBDA r : r.expiration = Val(selected_exp))
        target_delta == IF option_type = PUT THEN put_delta ELSE call_delta
        by_delta == IF IsNone(target_delta) THEN None
                    ELSE select_strike_by_delta(chain.has_delta, exp_chain, option_type,
                                                Val(target_delta), underlying_price, basis)
        selected_strike == IF IsNone(by_delta)
                           THEN fallback_strike(exp_chain, option_type, underlying_price, basis)
                           ELSE by_delta
        option == SelectSeq(exp_chain, LAMBDA r : r.strike = Val(selected_strike))[1]
    IN  IF chain.rows = << >>
        THEN Some([expiration |-> trade_date + DteTarget,
                   strike |-> underlying_price,
                   option_type |-> option_type,
                   bid |-> 0, ask |-> 0, mid_price |-> 0,
                   delta |-> None,
                   dte |-> DteTarget])
        ELSE IF type_chain = << >> THEN None
        ELSE IF IsNone(selected_exp) THEN None
        ELSE IF IsNone(selected_strike) THEN None
        ELSE Some([expiration |-> Val(selected_exp),
                   strike |-> Val(selected_strike),
                   option_type |-> option_type,
                   bid |-> option.bid,
                   ask |-> option.ask,
                   mid_price |-> (option.bid + option.ask) \div 2,
                   delta |-> option.delta,
                   dte |-> Val(selected_exp) - trade_date])

select_option_from_chain(chain, option_type, underlying_price, trade_date, basis) ==
    LET type_chain == SelectSeq(chain.rows, LAMBDA r : r.option_type = option_type)
        expirations == Sorted({type_chain[i].expiration : i \in DOMAIN type_chain})
        selected_exp == select_expiration(expirations, trade_date)
        exp_chain == SelectSeq(type_chain, LAMBDA r : r.expiration = Val(selected_exp))
        target_delta == IF option_type = PUT THEN put_delta ELSE call_delta
        by_delta == IF IsNone(target_delta) THEN None
                    ELSE select_strike_by_delta(chain.has_delta, exp_chain, option_type,
                                                Val(target_delta), underlying_price, basis)
        selected_strike == IF IsNone(by_delta)
                           THEN fallback_strike(exp_chain, option_type, underlying_price, basis)
                           ELSE by_delta
        option == SelectSeq(exp_chain, LAMBDA r : r.strike = Val(selected_strike))[1]
    IN  IF chain.rows = << >> THEN None
        ELSE IF type_chain = << >> THEN None
        ELSE IF IsNone(selected_exp) THEN None
        ELSE IF IsNone(selected_strike) THEN None
        ELSE Some([expiration |-> Val(selected_exp),
                   strike |-> Val(selected_strike),
                   option_type |-> option_type,
                   bid |-> option.bid,
                   ask |-> option.ask,
                   mid_price |-> (option.bid + option.ask) \div 2,
                   delta |-> option.delta,
                   dte |-> Val(selected_exp) - trade_date])

----------------------------------------------------------------------------
(* WheelStrategy.  A machine M is [L, state, cost_basis, events, steps,     *)
(* err]: the ledger, _state, _cost_basis, the events logged so far in this  *)
(* call, one record per resolved position (the position and the ledger      *)
(* around its resolution, kept for observation), and the error that ended   *)
(* the call ("none" while it runs).                                         *)

Event(trade_date, event_type, state_before, state_after, details) ==
    [date |-> trade_date, event_type |-> event_type, state_before |-> state_before,
     state_after |-> state_after, details |-> details]

Logged(M, position, r, new_state, new_basis, event) ==
    [M EXCEPT !.L = r.L, !.state = new_state, !.cost_basis = new_basis,
              !.events = Append(@, event),
              !.steps = Append(@, [position |-> position, before |-> M.L, after |-> r.L])]

(* a turn of that loop in which a call expiring worthless leaves the      *)
(* state as it was                                                         *)
resolve_position_expiry_keeps_state(M, position, trade_date, underlying_price) ==
    LET state_before == M.state
    IN  IF is_itm(position, underlying_price)
        THEN IF is_put(position)
             THEN LET r == exercise_put_assignment(M.L, position, underlying_price)
                      shares_acquired == position.quantity * multiplier
                      basis == Some(position.strike - position.entry_price)
                  IN  IF r.err # "none" THEN [M EXCEPT !.err = r.err]
                      ELSE Logged(M, position, r, HOLDING_STOCK, basis,
                               Event(trade_date, "put_assigned", state_before, HOLDING_STOCK,
                                     [strike |-> position.strike,
                                      underlying_price |-> underlying_price,
                                      shares_acquired |-> shares_acquired,
                                      cost_basis |-> basis,
                                      premium_received |-> position.entry_price,
                                      pnl |-> Val(r.ret)]))
             ELSE LET r == exercise_call_assignment(M.L, position, underlying_price)
                  IN  IF r.err # "none" THEN [M EXCEPT !.err = r.err]
                      ELSE Logged(M, position, r, SELLING_PUTS, None,
                               Event(trade_date, "call_assigned", state_before, SELLING_PUTS,
                                     [strike |-> position.strike,
                                      underlying_price |-> underlying_price,
                                      shares_sold |-> position.quantity * multiplier,
                                      premium_received |-> position.entry_price,
                                      pnl |-> Val(r.ret)]))
        ELSE LET r == expire_option_worthless(M.L, position)
                 event_type == IF is_put(position) THEN "put_expired" ELSE "call_expired"
                 state_after == M.state
             IN  IF r.err # "none" THEN [M EXCEPT !.err = r.err]
                 ELSE Logged(M, position, r, state_after, M.cost_basis,
                          Event(trade_date, event_type, state_before, state_after,
                                [strike |-> position.strike,
                                 underlying_price |-> underlying_price,
                                 premium_kept |-> position.entry_price,
                                 pnl |-> Val(r.ret)]))

(* a turn of that loop in which a call expiring worthless clears the cost *)
(* basis, as a call assignment does                                        *)
resolve_position_expiry_clears_basis(M, position, trade_date, underlying_price) ==
    LET state_before == M.state
    IN  IF is_itm(position, underlying_price)
        THEN IF is_put(position)
             THEN LET r == exercise_put_assignment(M.L, position, underlying_price)
                      shares_acquired == position.quantity * multiplier
                      basis == Some(position.strike - position.entry_price)
                  IN  IF r.err # "none" THEN [M EXCEPT !.err = r.err]
                      ELSE Logged(M, position, r, HOLDING_STOCK, basis,
                               Event(trade_date, "put_assigned", state_before, HOLDING_STOCK,
                                     [strike |-> position.strike,
                                      underlying_price |-> underlying_price,
                                      shares_acquired |-> shares_acquired,
                                      cost_basis |-> basis,
                                      premium_received |-> position.entry_price,
                                      pnl |-> Val(r.ret)]))
             ELSE LET r == exercise_call_assignment(M.L, position, underlying_price)
                  IN  IF r.err # "none" THEN [M EXCEPT !.err = r.err]
                      ELSE Logged(M, position, r, SELLING_PUTS, None,
                               Event(trade_date, "call_assigned", state_before, SELLING_PUTS,
                                     [strike |-> position.strike,
                                      underlying_price |-> underlying_price,
                                      shares_sold |-> position.quantity * multiplier,
                                      premium_received |-> position.entry_price,
                                      pnl |-> Val(r.ret)]))
        ELSE LET r == expire_option_worthless(M.L, position)
                 event_type == IF is_put(position) THEN "put_expired" ELSE "call_expired"
                 state_after == IF is_call(position) THEN HOLDING_STOCK ELSE M.state
             IN  IF r.err # "none" THEN [M EXCEPT !.err = r.err]
                 ELSE Logged(M, position, r, state_after,
                             IF is_call(position) THEN None ELSE M.cost_basis,
                          Event(trade_date, event_type, state_before, state_after,
                                [strike |-> position.strike,
                                 underlying_price |-> underlying_price,
                                 premium_kept |-> position.entry_price,
                                 pnl |-> Val(r.ret)]))

(* one turn of the loop of _handle_expirations *)
resolve_position(M, position, trade_date, underlying_price) ==
    LET state_before == M.state
    IN  IF is_itm(position, underlying_price)
        THEN IF is_put(position)
             THEN LET r == exercise_put_assignment(M.L, position, underlying_price)
                      shares_acquired == position.quantity * multiplier
                      basis == Some(position.strike - position.entry_price)
                  IN  IF r.err # "none" THEN [M EXCEPT !.err = r.err]
                      ELSE Logged(M, position, r, HOLDING_STOCK, basis,
                               Event(trade_date, "put_assigned", state_before, HOLDING_STOCK,
                                     [strike |-> position.strike,
                                      underlying_price |-> underlying_price,
                                      shares_acquired |-> shares_acquired,
                                      cost_basis |-> basis,
                                      premium_received |-> position.entry_price,
                                      pnl |-> Val(r.ret)]))
             ELSE LET r == exercise_call_assignment(M.L, position, underlying_price)
                  IN  IF r.err # "none" THEN [M EXCEPT !.err = r.err]
                      ELSE Logged(M, position, r, SELLING_PUTS, None,
                               Event(trade_date, "call_assigned", state_before, SELLING_PUTS,
                                     [strike |-> position.strike,
                                      underlying_price |-> underlying_price,
                                      shares_sold |-> position.quantity * multiplier,
                                      premium_received |-> position.entry_price,
                                      pnl |-> Val(r.ret)]))
        ELSE LET r == expire_option_worthless(M.L, position)
                 event_type == IF is_put(position) THEN "put_expired" ELSE "call_expired"
                 state_after == IF is_call(position) THEN HOLDING_STOCK ELSE M.state
             IN  IF r.err # "none" THEN [M EXCEPT !.err = r.err]
                 ELSE Logged(M, position, r, state_after, M.cost_basis,
                          Event(trade_date, event_type, state_before, state_after,
                                [strike |-> position.strike,
                                 underlying_price |-> underlying_price,
                                 premium_kept |-> position.entry_price,
                                 pnl |-> Val(r.ret)]))

RECURSIVE resolve_from(_, _, _, _, _)
resolve_from(M, expired_positions, i, trade_date, underlying_price) ==
    IF i > Len(expired_positions) \/ M.err # "none" THEN M
    ELSE resolve_from(resolve_position(M, expired_positions[i], trade_date, underlying_price),
                      expired_positions, i + 1, trade_date, underlying_price)

handle_expirations(M, trade_date, underlying_price) ==
    LET expired_positions == SelectSeq(M.L.positions, LAMBDA pos : is_expired(pos, trade_date))
    IN  resolve_from(M, expired_positions, 1, trade_date, underlying_price)

(* _update_state that keeps SellingCalls once entered while shares are held *)
update_state_sticky(L, old_state) ==
    LET has_shares == L.shares > 0
        has_short_puts == Len(get_short_puts(L)) > 0
        has_short_calls == Len(get_short_calls(L)) > 0
    IN  IF has_shares
        THEN IF has_short_calls \/ old_state = SELLING_CALLS THEN SELLING_CALLS ELSE HOLDING_STOCK
        ELSE SELLING_PUTS

(* _update_state that tells the state by the open positions alone: with   *)
(* no short call open it is SellingPuts, shares or not                     *)
update_state_by_positions(L, old_state) ==
    LET has_shares == L.shares > 0
        has_short_puts == Len(get_short_puts(L)) > 0
        has_short_calls == Len(get_short_calls(L)) > 0
    IN  IF has_short_calls THEN SELLING_CALLS ELSE SELLING_PUTS

update_state(L, old_state) ==
    LET has_shares == L.shares > 0
        has_short_puts == Len(get_short_puts(L)) > 0
        has_short_calls == Len(get_short_calls(L)) > 0
    IN  IF has_shares
        THEN IF has_short_calls THEN SELLING_CALLS ELSE HOLDING_STOCK
        ELSE SELLING_PUTS

(* _should_open_position that does not look at the open short positions   *)
should_open_position_always(L, st) ==
    IF st = SELLING_PUTS THEN TRUE
    ELSE IF st = HOLDING_STOCK THEN TRUE
    ELSE FALSE

should_open_position(L, st) ==
    IF st = SELLING_PUTS THEN Len(get_short_puts(L)) = 0
    ELSE IF st = HOLDING_STOCK THEN Len(get_short_calls(L)) = 0
    ELSE FALSE

put_is_secured(L, option_info) ==
    ~(L.cash < option_info.strike * contracts * HardMultiplier)

call_is_covered(L) ==
    ~(L.shares < contracts * HardMultiplier)

sell_put(M, option_info, trade_date, underlying_price) ==
    IF IsNone(option_info) THEN M
    ELSE IF ~put_is_secured(M.L, Val(option_info)) THEN M
    ELSE LET info == Val(option_info)
             total_commission == commission * contracts
             r == open_short_option(M.L, PUT, info.strike, info.expiration, contracts,
                                    info.mid_price, trade_date, underlying_price,
                                    info.delta, total_commission)
         IN  IF r.err # "none" THEN [M EXCEPT !.err = r.err]
             ELSE [M EXCEPT !.L = r.L,
                            !.events = Append(@,
                                Event(trade_date, "sell_put", M.state, SELLING_PUTS,
                                      [strike |-> info.strike,
                                       expiration |-> info.expiration,
                                       premium |-> info.mid_price,
                                       delta |-> info.delta,
                                       dte |-> info.dte,
                                       underlying_price |-> underlying_price,
                                       contracts |-> contracts,
                                       commission |-> total_commission]))]

(* _sell_call that leaves the state for the next refresh to set           *)
sell_call_keeps_state(M, option_info, trade_date, underlying_price) ==
    IF IsNone(option_info) THEN M
    ELSE IF ~call_is_covered(M.L) THEN M
    ELSE LET info == Val(option_info)
             total_commission == commission * contracts
             r == open_short_option(M.L, CALL, info.strike, info.expiration, contracts,
                                    info.mid_price, trade_date, underlying_price,
                                    info.delta, total_commission)
         IN  IF r.err # "none" THEN [M EXCEPT !.err = r.err]
             ELSE [M EXCEPT !.L = r.L,
                            !.events = Append(@,
                                Event(trade_date, "sell_call", M.state, SELLING_CALLS,
                                      [strike |-> info.strike,
                                       expiration |-> info.expiration,
                                       premium |-> info.mid_price,
                                       delta |-> info.delta,
                                       dte |-> info.dte,
                                       underlying_price |-> underlying_price,
                                       cost_basis |-> M.cost_basis,
                                       contracts |-> contracts,
                                       commission |-> total_commission]))]

sell_call(M, option_info, trade_date, underlying_price) ==
    IF IsNone(option_info) THEN M
    ELSE IF ~call_is_covered(M.L) THEN M
    ELSE LET info == Val(option_info)
             total_commission == commission * contracts
             r == open_short_option(M.L, CALL, info.strike, info.expiration, contracts,
                                    info.mid_price, trade_date, underlying_price,
                                    info.delta, total_commission)
         IN  IF r.err # "none" THEN [M EXCEPT !.err = r.err]
             ELSE [M EXCEPT !.L = r.L,
                            !.state = SELLING_CALLS,
                            !.events = Append(@,
                                Event(trade_date, "sell_call", M.state, SELLING_CALLS,
                                      [strike |-> info.strike,
                                       expiration |-> info.expiration,
                                       premium |-> info.mid_price,
                                       delta |-> info.delta,
                                       dte |-> info.dte,
                                       underlying_price |-> underlying_price,
                                       cost_basis |-> M.cost_basis,
                                       contracts |-> contracts,
                                       commission |-> total_commission]))]

(* what _open_position asks the selector: the kind, and the answer *)
selection(M, chain, trade_date, underlying_price) ==
    IF M.state = SELLING_PUTS
    THEN [kind |-> PUT,
          info |-> select_option_from_chain(chain, PUT, underlying_price, trade_date, None)]
    ELSE IF M.state = HOLDING_STOCK
    THEN [kind |-> CALL,
          info |-> select_option_from_chain(chain, CALL, underlying_price, trade_date,
                                            M.cost_basis)]
    ELSE [kind |-> "none", info |-> None]

open_position(M, sel, trade_date, underlying_price) ==
    IF sel.kind = PUT THEN sell_put(M, sel.info, trade_date, underlying_price)
    ELSE IF sel.kind = CALL THEN sell_call(M, sel.info, trade_date, underlying_price)
    ELSE M

(* process_day: the machine at return, with what it saw after step 2 *)
process_day(M0, trade_date, underlying_price, chain) ==
    LET M1 == handle_expirations(M0, trade_date, underlying_price)
        M2 == [M1 EXCEPT !.state = update_state(M1.L, M1.state)]
        wants == should_open_position(M2.L, M2.state)
        sel == IF wants THEN selection(M2, chain, trade_date, underlying_price)
               ELSE [kind |-> "none", info |-> None]
        M3 == IF wants THEN open_position(M2, sel, trade_date, underlying_price) ELSE M2
    IN  IF M1.err # "none"
        THEN [M |-> M1, reached |-> FALSE, refreshed |-> M1, sel |-> [kind |-> "none", info |-> None]]
        ELSE [M |-> M3, reached |-> TRUE, refreshed |-> M2, sel |-> sel]

(* get_summary over the event log evts of a machine in state st *)
CountOf(evts, kind) == Len(SelectSeq(evts, LAMBDA e : e.event_type = kind))

RECURSIVE premium_from(_, _, _)
premium_from(evts, kind, i) ==
    IF i > Len(evts) THEN 0
    ELSE (IF evts[i].event_type = kind
          THEN evts[i].details.premium * evts[i].details.contracts * HardMultiplier
          ELSE 0)
         + premium_from(evts, kind, i + 1)

get_summary(evts, st) ==
    LET premium_from_puts == premium_from(evts, "sell_put", 1)
        premium_from_calls == premium_from(evts, "sell_call", 1)
    IN  [total_puts_sold |-> CountOf(evts, "sell_put"),
         total_calls_sold |-> CountOf(evts, "sell_call"),
         put_assignments |-> CountOf(evts, "put_assigned"),
         call_assignments |-> CountOf(evts, "call_assigned"),
         puts_expired_otm |-> CountOf(evts, "put_expired"),
         calls_expired_otm |-> CountOf(evts, "call_expired"),
         total_premium_from_puts |-> premium_from_puts,
         total_premium_from_calls |-> premium_from_calls,
         total_premium_collected |-> premium_from_puts + premium_from_calls,
         current_state |-> st]

----------------------------------------------------------------------------
(* The inputs of one trading day. *)

(* A day's chain lists a put and a call at every strike of a set of strikes, *)
(* all at one expiration and one quote, puts first, strikes ascending; the   *)
(* delta column is absent, all null, or holds one |delta| for every row.     *)
(* expiration holds the days to expiration until the chain is dated.         *)
Listing(dte, ks, q, dl) ==
    LET strikes == Sorted(ks)
        n == Len(strikes)
    IN  [i \in 1..(2 * n) |->
            [expiration |-> dte,
             strike |-> strikes[IF i <= n THEN i ELSE i - n],
             option_type |-> IF i <= n THEN PUT ELSE CALL,
             bid |-> q[1], ask |-> q[2], delta |-> dl]]

(* << whether there is a delta column, the |delta| of every row >> *)
DeltaColumns == { <<FALSE, None>>, <<TRUE, None>> } \cup { <<TRUE, Some(x)>> : x \in Deltas }

Chains ==
    { [has_delta |-> hd[1], rows |-> Listing(dte, ks, q, hd[2])] :
        hd \in DeltaColumns, dte \in Dtes, ks \in SUBSET Strikes, q \in Quotes }

(* the chain of trade date d: expirations as dates, put deltas negative *)
Dated(ch, d) ==
    [ch EXCEPT !.rows = [i \in DOMAIN ch.rows |->
        [ch.rows[i] EXCEPT !.expiration = d + @,
                           !.delta = IF IsNone(@) \/ ch.rows[i].option_type = CALL
                                     THEN @ ELSE Some(-Val(@))]]]

----------------------------------------------------------------------------
(* State and actions. *)

NoObs == << >>
NoBacktest == << >>
Call(op, err, ret) == [op |-> op, err |-> err, ret |-> ret]

TheLedger == Ledger(cash, shares, positions)
TheMachine == [L |-> TheLedger, state |-> state, cost_basis |-> cost_basis,
               events |-> << >>, steps |-> << >>, err |-> "none"]

(* an exception out of process_day ends the run *)
Running == ~(last.op = "process_day" /\ last.err # "none")

Init ==
    /\ multiplier \in Multipliers
    /\ contracts \in ContractCounts
    /\ commission \in Commissions
    /\ cash \in InitialCash
    /\ shares = 0
    /\ positions = << >>
    /\ state = SELLING_PUTS
    /\ cost_basis = None
    /\ today = 0
    /\ last = Call("init", "none", None)
    /\ day_events = << >>
    /\ obs = NoObs
    /\ n_calls = 0
    /\ events = << >>
    /\ initial_cash = cash
    /\ backtest = NoBacktest

(* a call process_day(d, u, ch) with result R: what it leaves behind *)
Processed(R, d, u, ch) ==
    /\ cash' = R.M.L.cash
    /\ shares' = R.M.L.shares
    /\ positions' = R.M.L.positions
    /\ state' = R.M.state
    /\ cost_basis' = R.M.cost_basis
    /\ today' = d
    /\ last' = Call("process_day", R.M.err, None)
    /\ day_events' = R.M.events
    /\ obs' = [entry |-> [L |-> TheLedger, state |-> state,
                          cost_basis |-> cost_basis],
               underlying_price |-> u,
               steps |-> R.M.steps,
               reached |-> R.reached,
               refreshed |-> [L |-> R.refreshed.L, state |-> R.refreshed.state,
                              cost_basis |-> R.refreshed.cost_basis],
               sel |-> R.sel,
               chain_empty |-> (ch.rows = << >>)]
    /\ events' = events \o R.M.events

ProcessDay ==
    /\ Running
    /\ \E d \in (today + 1)..(MaxDay - n_calls), u \in Underlyings, ch \in Chains :
         \E R \in {process_day(TheMachine, d, u, Dated(ch, d))} : Processed(R, d, u, ch)
    /\ UNCHANGED << config, n_calls, initial_cash, backtest >>

(* A direct call of a ledger operation, with result r.  Direct calls come   *)
(* before the first trading day: during a run the state machine alone     *)
(* drives the ledger.                                                     *)
Direct(op, r) ==
    /\ Running
    /\ n_calls < MaxCalls
    /\ today = 0
    /\ cash' = r.L.cash
    /\ shares' = r.L.shares
    /\ positions' = r.L.positions
    /\ last' = Call(op, r.err, r.ret)
    /\ day_events' = << >>
    /\ obs' = NoObs
    /\ n_calls' = n_calls + 1
    /\ UNCHANGED << config, state, cost_basis, today, events, initial_cash, backtest >>

Held == {positions[i] : i \in DOMAIN positions}

Deposit == \E amount \in {100} : Direct("deposit", deposit(TheLedger, amount))

Withdraw == \E amount \in {100} : Direct("withdraw", withdraw(TheLedger, amount))

BuyShares ==
    \E price \in Underlyings :
        Direct("buy_shares", buy_shares(TheLedger, 100, price, 0))

SellShares ==
    \E price \in Underlyings :
        Direct("sell_shares", sell_shares(TheLedger, 100, price, 0))

OpenShortOption ==
    \E t \in {PUT, CALL}, k \in Strikes, premium \in {0, 1}, comm \in Commissions :
        Direct("open_short_option",
               open_short_option(TheLedger, t, k, today + 1, 1, premium, today, k,
                                 None, comm))

CloseOptionPosition ==
    \E position \in Held, close_price \in {0, 2} :
        Direct("close_option_position",
               close_option_position(TheLedger, position, close_price, 0))

ExpireOptionWorthless ==
    \E position \in Held :
        Direct("expire_option_worthless", expire_option_worthless(TheLedger, position))

ExercisePutAssignment ==
    \E position \in Held, u \in Underlyings :
        Direct("exercise_put_assignment", exercise_put_assignment(TheLedger, position, u))

ExerciseCallAssignment ==
    \E position \in Held, u \in Underlyings :
        Direct("exercise_call_assignment", exercise_call_assignment(TheLedger, position, u))

LedgerCall ==
    \/ Deposit
    \/ Withdraw
    \/ BuyShares
    \/ SellShares
    \/ OpenShortOption
    \/ CloseOptionPosition
    \/ ExpireOptionWorthless
    \/ ExercisePutAssignment
    \/ ExerciseCallAssignment

Next == ProcessDay

(* a backtest run: the ledger is driven by process_day alone *)
Spec == Init /\ [][Next]_vars

(* the ledger alone, called directly *)
LedgerSpec == Init /\ [][LedgerCall]_vars

(* direct ledger calls set the ledger up, then the trading days follow *)
(* (commissions are left to Spec and LedgerSpec)                        *)
ApiInit == Init /\ commission = 0 /\ contracts = 1
ApiNext == LedgerCall \/ ProcessDay
ApiSpec == ApiInit /\ [][ApiNext]_vars

(* The state refresh as a function: any holdings the ledger operations can *)
(* build, any previous state, and _update_state applied to them.           *)
SamplePositions ==
    { [option_type |-> t, side |-> SHORT, strike |-> k, expiration |-> 1, quantity |-> 1,
       entry_price |-> 0, entry_date |-> 0, underlying_price_at_entry |-> k,
       delta_at_entry |-> None] : t \in {PUT, CALL}, k \in Strikes }

RefreshInit ==
    /\ multiplier \in Multipliers
    /\ contracts = 1
    /\ commission = 0
    /\ cash \in InitialCash
    /\ shares \in {0, 100}
    /\ positions \in UNION { [1..n -> SamplePositions] : n \in 0..2 }
    /\ state \in WheelState
    /\ cost_basis \in {None, Some(1)}
    /\ today = 0
    /\ last = Call("init", "none", None)
    /\ day_events = << >>
    /\ obs = NoObs
    /\ n_calls = 0
    /\ events = << >>
    /\ initial_cash = cash
    /\ backtest = NoBacktest

UpdateState ==
    /\ state' = update_state(TheLedger, state)
    /\ last' = Call("_update_state", "none", None)
    /\ obs' = [entry |-> [L |-> TheLedger, state |-> state, cost_basis |-> cost_basis]]
    /\ UNCHANGED << config, cash, shares, positions, cost_basis, today, day_events, n_calls,
                    events, initial_cash, backtest >>

RefreshSpec == RefreshInit /\ [][UpdateState]_vars

(* One trading day on any holdings: the ledger as direct calls and earlier *)
(* days can leave it, with positions due and not yet due on the day, any   *)
(* state and cost basis, and process_day called once.                       *)
TheDay == 2
DayPositions ==
    { [option_type |-> t, side |-> SHORT, strike |-> k, expiration |-> TheDay - 1,
       quantity |-> 1, entry_price |-> 1, entry_date |-> 0,
       underlying_price_at_entry |-> k, delta_at_entry |-> None] :
        t \in {PUT, CALL}, k \in Strikes }
    \cup
    { [option_type |-> t, side |-> SHORT, strike |-> 2, expiration |-> TheDay + 1,
       quantity |-> 1, entry_price |-> 1, entry_date |-> 0,
       underlying_price_at_entry |-> 2, delta_at_entry |-> None] :
        t \in {PUT, CALL} }

DayInit ==
    /\ multiplier \in Multipliers
    /\ contracts = 1
    /\ commission \in Commissions
    /\ cash \in InitialCash
    /\ shares \in {0, 100}
    /\ positions \in UNION { [1..n -> DayPositions] : n \in 0..2 }
    /\ state \in WheelState
    /\ cost_basis \in {None, Some(1)}
    /\ today = 0
    /\ last = Call("init", "none", None)
    /\ day_events = << >>
    /\ obs = NoObs
    /\ n_calls = 0
    /\ events = << >>
    /\ initial_cash = cash
    /\ backtest = NoBacktest

OneDay ==
    /\ last.op = "init"
    /\ \E u \in Underlyings, ch \in Chains :
         \E R \in {process_day(TheMachine, TheDay, u, Dated(ch, TheDay))} :
             Processed(R, TheDay, u, ch)
    /\ UNCHANGED << config, n_calls, initial_cash, backtest >>

DaySpec == DayInit /\ [][OneDay]_vars

(* The ledger as a caller sees it call after call.  The ledger may start   *)
(* with positions opened earlier; a call names a position object: one the *)
(* ledger holds, the one the previous call removed, or one never opened   *)
(* there (an object is held or not whatever other objects equal it).      *)
ShortOf(t, k, q, p) ==
    [option_type |-> t, side |-> SHORT, strike |-> k, expiration |-> 1, quantity |-> q,
     entry_price |-> p, entry_date |-> 0, underlying_price_at_entry |-> k,
     delta_at_entry |-> None]

BookPool == { ShortOf(PUT, 2, 1, 1), ShortOf(CALL, 1, 1, 1), ShortOf(CALL, 2, 1, 1) }

BookInit ==
    /\ multiplier \in Multipliers \ {50}
    /\ contracts = 1
    /\ commission = 0
    /\ cash \in InitialCash
    /\ shares = 0
    /\ positions \in UNION { [1..n -> BookPool] : n \in 0..2 }
    /\ state = SELLING_PUTS
    /\ cost_basis = None
    /\ today = 0
    /\ last = Call("init", "none", None)
    /\ day_events = << >>
    /\ obs = NoObs
    /\ n_calls = 0
    /\ events = << >>
    /\ initial_cash = cash
    /\ backtest = NoBacktest

(* the position objects a caller can pass *)
Refs ==
    { [value |-> positions[i], held |-> TRUE] : i \in DOMAIN positions }
    \cup { [value |-> v, held |-> FALSE] : v \in { w \in BookPool : ~Contains(positions, w) } }
    \cup (IF obs # NoObs /\ ~IsNone(obs.removed)
          THEN { [value |-> Val(obs.removed), held |-> FALSE] } ELSE {})

(* one call: op, the position object passed (None when the operation      *)
(* takes none), its other arguments, and the result r                     *)
Booked(op, ref, args, r) ==
    /\ n_calls < MaxCalls
    /\ today = 0
    /\ cash' = r.L.cash
    /\ shares' = r.L.shares
    /\ positions' = r.L.positions
    /\ last' = Call(op, r.err, r.ret)
    /\ day_events' = << >>
    /\ obs' = [before |-> TheLedger,
               ref |-> ref,
               args |-> args,
               removed |-> IF Len(r.L.positions) < Len(positions)
                           THEN Some(Val(ref).value) ELSE None,
               prev |-> IF obs = NoObs THEN None
                        ELSE Some([op |-> last.op, err |-> last.err, ret |-> last.ret,
                                   before |-> obs.before, ref |-> obs.ref,
                                   args |-> obs.args])]
    /\ n_calls' = n_calls + 1
    /\ UNCHANGED << config, state, cost_basis, today, events, initial_cash, backtest >>

BookDeposit ==
    \E amount \in {-100, 100} : Booked("deposit", None, [amount |-> amount], deposit(TheLedger, amount))

BookWithdraw ==
    \E amount \in {-100, 100} :
        Booked("withdraw", None, [amount |-> amount], withdraw(TheLedger, amount))

BookBuyShares ==
    \E quantity \in {100}, price \in Underlyings, comm \in {0} :
        Booked("buy_shares", None, [quantity |-> quantity, price |-> price, comm |-> comm],
               buy_shares(TheLedger, quantity, price, comm))

BookSellShares ==
    \E quantity \in {100}, price \in {2} :
        Booked("sell_shares", None, [quantity |-> quantity, price |-> price, comm |-> 0],
               sell_shares(TheLedger, quantity, price, 0))

BookOpenShortOption ==
    \E t \in {PUT, CALL}, q \in {1, 2}, comm \in Commissions :
        Booked("open_short_option", None, [comm |-> comm],
               open_short_option(TheLedger, t, 2, today + 1, q, 1, today, 2, None, comm))

BookCloseOptionPosition ==
    \E ref \in Refs, close_price \in {2} :
        Booked("close_option_position", Some(ref), [close_price |-> close_price, comm |-> 0],
               close_option_position(TheLedger, ref.value, close_price, 0))

BookExpireOptionWorthless ==
    \E ref \in Refs :
        Booked("expire_option_worthless", Some(ref), << >>,
               expire_option_worthless(TheLedger, ref.value))

BookExercisePutAssignment ==
    \E ref \in Refs, u \in {1} :
        Booked("exercise_put_assignment", Some(ref), [underlying_price |-> u],
               exercise_put_assignment(TheLedger, ref.value, u))

BookExerciseCallAssignment ==
    \E ref \in Refs, u \in {2} :
        Booked("exercise_call_assignment", Some(ref), [underlying_price |-> u],
               exercise_call_assignment(TheLedger, ref.value, u))

BookGetBuyingPower ==
    Booked("get_buying_power", None, << >>, Ok(TheLedger, Some(get_buying_power(TheLedger))))

BookCall ==
    \/ BookDeposit
    \/ BookWithdraw
    \/ BookBuyShares
    \/ BookSellShares
    \/ BookOpenShortOption
    \/ BookCloseOptionPosition
    \/ BookExpireOptionWorthless
    \/ BookExercisePutAssignment
    \/ BookExerciseCallAssignment
    \/ BookGetBuyingPower

BookSpec == BookInit /\ [][BookCall]_vars

(* The selector as a function: its methods applied to lists of            *)
(* expirations and to chains of any order, with nulls among the deltas    *)
(* and rows on either side of the underlying price.                       *)
SelectorInit ==
    /\ multiplier = HardMultiplier
    /\ contracts = 1
    /\ commission = 0
    /\ cash = 0
    /\ shares = 0
    /\ positions = << >>
    /\ state = SELLING_PUTS
    /\ cost_basis = None
    /\ today = 0
    /\ last = Call("init", "none", None)
    /\ day_events = << >>
    /\ obs = NoObs
    /\ n_calls = 0
    /\ events = << >>
    /\ initial_cash = cash
    /\ backtest = NoBacktest

(* a selector that has not been called yet *)
Fresh == last.op = "init"

(* the call made, its arguments args and what it returned *)
Selected(op, args, ret) ==
    /\ last' = Call(op, "none", ret)
    /\ obs' = args
    /\ UNCHANGED << config, cash, shares, positions, state, cost_basis, today,
                    day_events, n_calls, events, initial_cash, backtest >>

UpTo(S, n) == UNION { [1..k -> S] : k \in 0..n }

SelectorDay == 1
SelectorUnderlying == 2
ExpirationLists == UpTo(SelectorDay..(SelectorDay + 4), 3)
SignedDeltas(t) == { None } \cup { Some(IF t = PUT THEN -x ELSE x) : x \in {10, 30} }
DeltaRows(t) ==
    { [expiration |-> SelectorDay + 1, strike |-> k, option_type |-> t,
       bid |-> 0, ask |-> 2, delta |-> dl] : k \in 1..3, dl \in SignedDeltas(t) }
ChainRows ==
    { [expiration |-> SelectorDay + e, strike |-> k, option_type |-> t,
       bid |-> 0, ask |-> 2,
       delta |-> IF IsNone(dl) \/ t = CALL THEN dl ELSE Some(-Val(dl))] :
        e \in 1..2, k \in 1..3, t \in {PUT, CALL}, dl \in { None, Some(CallDelta) } }
Bases == { None, Some(3) }

SelectExpiration ==
    /\ Fresh
    /\ \E available \in ExpirationLists :
        Selected("select_expiration",
                 [available_expirations |-> available, trade_date |-> SelectorDay],
                 select_expiration(available, SelectorDay))

SelectStrikeByDelta ==
    /\ Fresh
    /\ \E t \in {PUT, CALL}, has_delta \in BOOLEAN, basis \in Bases :
        \E rows \in UpTo(DeltaRows(t), 2) :
            Selected("select_strike_by_delta",
                     [has_delta |-> has_delta, rows |-> rows, option_type |-> t,
                      target_delta |-> PutDelta, underlying_price |-> SelectorUnderlying,
                      cost_basis |-> basis],
                     select_strike_by_delta(has_delta, rows, t, PutDelta,
                                            SelectorUnderlying, basis))

SelectOptionFromChain ==
    /\ Fresh
    /\ \E t \in {PUT, CALL}, has_delta \in BOOLEAN, basis \in Bases :
        \E rows \in UpTo(ChainRows, 2) :
            Selected("select_option_from_chain",
                     [chain |-> [has_delta |-> has_delta, rows |-> rows], option_type |-> t,
                      underlying_price |-> SelectorUnderlying, trade_date |-> SelectorDay,
                      cost_basis |-> basis],
                     select_option_from_chain([has_delta |-> has_delta, rows |-> rows], t,
                                              SelectorUnderlying, SelectorDay, basis))

SelectorCall == SelectExpiration \/ SelectStrikeByDelta \/ SelectOptionFromChain

SelectorSpec == SelectorInit /\ [][SelectorCall]_vars

----------------------------------------------------------------------------
(* WheelBacktest, the orchestrator.  A configuration is a BacktestConfig    *)
(* that passed validation.                                                  *)

DefaultMultiplier == 100     \* Portfolio.contract_multiplier when none is given
BacktestContracts == 1       \* contracts_per_trade the orchestrator passes

ValidConfigs ==
    [initial_capital : {200, 400},
     dte_target : {DteTarget, DteTarget + 1},
     dte_min : {DteMin},
     commission_per_contract : Commissions,
     contract_multiplier : Multipliers,
     enable_call_entry_protection : BOOLEAN,
     call_entry_protection_dollars : {0, 50}]

(* the parameters WheelStrategy.__init__ declares, and the keywords        *)
(* WheelBacktest.__init__ calls it with                                    *)
WheelStrategyParameters ==
    {"portfolio", "selector", "contracts_per_trade", "commission_per_contract"}
StrategyKeywords ==
    {"portfolio", "selector", "contracts_per_trade", "commission_per_contract",
     "enable_call_entry_protection", "call_entry_protection_dollars"}

(* a call of WheelStrategy(...) with the given keywords: a keyword the     *)
(* signature does not declare raises TypeError                             *)
new_WheelStrategy(keywords, contracts_per_trade, commission_per_contract) ==
    IF ~(keywords \subseteq WheelStrategyParameters) THEN [err |-> "TypeError"]
    ELSE [err |-> "none",
          contracts_per_trade |-> contracts_per_trade,
          commission |-> commission_per_contract,
          state |-> SELLING_PUTS,
          events |-> << >>,
          cost_basis |-> None]

(* WheelBacktest(cfg), the strategy being called with keywords *)
new_WheelBacktest(cfg, keywords) ==
    LET portfolio == [cash |-> cfg.initial_capital, shares |-> 0, option_positions |-> << >>,
                      contract_multiplier |-> DefaultMultiplier]
        selector == [dte_target |-> cfg.dte_target, dte_min |-> cfg.dte_min]
        strategy == new_WheelStrategy(keywords, BacktestContracts, cfg.commission_per_contract)
    IN  IF strategy.err # "none" THEN [err |-> strategy.err]
        ELSE [err |-> "none", config |-> cfg, portfolio |-> portfolio, selector |-> selector,
              strategy |-> strategy, equity_curve |-> << >>, transactions |-> << >>]

(* the variables hold the orchestrator B and its components *)
Holds(B) ==
    /\ multiplier = B.portfolio.contract_multiplier
    /\ contracts = B.strategy.contracts_per_trade
    /\ commission = B.strategy.commission
    /\ cash = B.portfolio.cash
    /\ shares = B.portfolio.shares
    /\ positions = B.portfolio.option_positions
    /\ state = B.strategy.state
    /\ cost_basis = B.strategy.cost_basis
    /\ events = B.strategy.events
    /\ initial_cash = B.portfolio.cash

(* Construction.  Before it there is a configuration and nothing else.     *)
Nothing == << >>

ConstructInit ==
    /\ multiplier = Nothing
    /\ contracts = Nothing
    /\ commission = Nothing
    /\ cash = Nothing
    /\ shares = Nothing
    /\ positions = Nothing
    /\ state = Nothing
    /\ cost_basis = Nothing
    /\ events = Nothing
    /\ initial_cash = Nothing
    /\ today = 0
    /\ last = Call("init", "none", None)
    /\ day_events = << >>
    /\ obs = NoObs
    /\ n_calls = 0
    /\ backtest \in { [config |-> cfg, built |-> FALSE] : cfg \in ValidConfigs }

Construct ==
    /\ last.op = "init"
    /\ \E B \in {new_WheelBacktest(backtest.config, StrategyKeywords)} :
         IF B.err # "none"
         THEN /\ last' = Call("WheelBacktest", B.err, None)
              /\ UNCHANGED << config, cash, shares, positions, state, cost_basis, events,
                              initial_cash, backtest >>
         ELSE /\ last' = Call("WheelBacktest", "none", None)
              /\ multiplier' = B.portfolio.contract_multiplier
              /\ contracts' = B.strategy.contracts_per_trade
              /\ commission' = B.strategy.commission
              /\ cash' = B.portfolio.cash
              /\ shares' = B.portfolio.shares
              /\ positions' = B.portfolio.option_positions
              /\ state' = B.strategy.state
              /\ cost_basis' = B.strategy.cost_basis
              /\ events' = B.strategy.events
              /\ initial_cash' = B.portfolio.cash
              /\ backtest' = [config |-> B.config, built |-> TRUE, selector |-> B.selector,
                              equity_curve |-> B.equity_curve,
                              transactions |-> B.transactions]
    /\ UNCHANGED << today, day_events, obs, n_calls >>

ConstructSpec == ConstructInit /\ [][Construct]_vars

(* A run.  The orchestrator is the one __init__ assembles, its strategy    *)
(* built with the parameters WheelStrategy declares; the selector of the   *)
(* model is the one of the configuration.                                  *)
RunConfigs ==
    { cfg \in ValidConfigs :
        /\ cfg.dte_target = DteTarget
        /\ cfg.contract_multiplier = DefaultMultiplier
        /\ ~cfg.enable_call_entry_protection
        /\ cfg.call_entry_protection_dollars = 0 }

EquityPoint(trade_date, c, stock_value, options_value) ==
    [date |-> trade_date, cash |-> c, stock_value |-> stock_value,
     options_value |-> options_value]
total(point) == point.cash + point.stock_value + point.options_value

(* _log_event of the orchestrator: the Transaction of an event, the ledger *)
(* being L when it is logged                                               *)
Has(details, name) == name \in DOMAIN details
Get(details, name, default) == IF Has(details, name) THEN details[name] ELSE default

Transaction(event, L, underlying_price) ==
    LET details == event.details
        action == event.event_type
        instrument == IF Has(details, "strike")
                      THEN << IF action \in {"sell_put", "put_expired", "put_assigned"}
                              THEN "PUT" ELSE "CALL",
                              details.strike,
                              Get(details, "expiration", "") >>
                      ELSE << "ticker" >>
        qpv == IF Has(details, "premium")
               THEN << Get(details, "contracts", 1), details.premium,
                       details.premium * Get(details, "contracts", 1) * HardMultiplier >>
               ELSE IF Has(details, "shares_acquired")
               THEN << details.shares_acquired, details.strike,
                       details.shares_acquired * details.strike >>
               ELSE IF Has(details, "shares_sold")
               THEN << details.shares_sold, details.strike,
                       details.shares_sold * details.strike >>
               ELSE << 0, 0, 0 >>
    IN  [date |-> event.date,
         action |-> action,
         instrument |-> instrument,
         quantity |-> qpv[1],
         price |-> qpv[2],
         value |-> qpv[3],
         commission |-> Get(details, "commission", 0),
         cash_after |-> L.cash,
         shares_after |-> L.shares,
         equity_after |-> get_equity(L, underlying_price),
         delta |-> Get(details, "delta", None),
         notes |-> event.state_after]

(* a row of the price series and the chain the options data holds for its  *)
(* date, as the loop meets them                                            *)
Day(row, ch) == [date |-> row.date, close |-> row.close, empty |-> (ch.rows = << >>)]

RunInit ==
    /\ \E cfg \in RunConfigs :
         \E B \in {new_WheelBacktest(cfg, WheelStrategyParameters)} :
             /\ Holds(B)
             /\ backtest = [config |-> cfg, built |-> TRUE, selector |-> B.selector,
                            equity_curve |-> B.equity_curve,
                            transactions |-> B.transactions,
                            phase |-> "built",   \* where run() is
                            n_days |-> 0,        \* len(prices)
                            prices |-> << >>,    \* the rows of prices met so far
                            idx |-> 0,           \* how many of them the loop is through
                            days |-> << >>,      \* the days the loop went through (history)
                            calls |-> << >>]     \* the process_day calls it made (history)
    /\ today = 0
    /\ last = Call("init", "none", None)
    /\ day_events = << >>
    /\ obs = NoObs
    /\ n_calls = 0

(* the rows a series of n more rows can continue with after the date d:    *)
(* dates ascend                                                            *)
Rows(d, n) ==
    IF n = 0 THEN { << >> }
    ELSE { << [date |-> e, close |-> u] >> : e \in (d + 1)..(MaxDay - n + 1), u \in Underlyings }

(* run() up to the loop: load the prices, fail when there are none, record *)
(* the first equity point                                                  *)
RunStart ==
    /\ backtest # NoBacktest
    /\ backtest.phase = "built"
    /\ \E n \in 0..MaxDay :
         IF n = 0
         THEN /\ backtest' = [backtest EXCEPT !.phase = "raised"]
              /\ last' = Call("run", "No price data available", None)
         ELSE \E first \in Rows(0, n) :
                /\ backtest' = [backtest EXCEPT
                       !.phase = "loop",
                       !.n_days = n,
                       !.prices = first,
                       !.equity_curve = Append(@, EquityPoint(first[1].date,
                                                  backtest.config.initial_capital, 0, 0))]
                /\ last' = last
    /\ UNCHANGED << config, cash, shares, positions, state, cost_basis, today, day_events,
                    obs, n_calls, events, initial_cash >>

(* the orchestrator after an iteration on row with chain ch that logged    *)
(* evts and left the ledger L, the series continuing with more             *)
Iterated(row, ch, called, evts, L, more) ==
    [backtest EXCEPT
        !.idx = @ + 1,
        !.prices = @ \o more,
        !.transactions = @ \o [i \in DOMAIN evts |-> Transaction(evts[i], L, row.close)],
        !.equity_curve = Append(@, EquityPoint(row.date, L.cash, L.shares * row.close, 0)),
        !.days = Append(@, Day(row, ch)),
        !.calls = IF called THEN Append(@, Day(row, ch)) ELSE @]

(* one iteration of the loop of run() *)
RunDay ==
    /\ backtest # NoBacktest
    /\ backtest.phase = "loop"
    /\ backtest.idx < backtest.n_days
    /\ \E row \in {backtest.prices[backtest.idx + 1]} :
         \E ch \in Chains, more \in Rows(row.date, backtest.n_days - backtest.idx - 1) :
           IF Dated(ch, row.date).rows = << >>
           THEN /\ backtest' = Iterated(row, ch, FALSE, << >>, TheLedger, more)
                /\ UNCHANGED << cash, shares, positions, state, cost_basis, today, last,
                                day_events, obs, events >>
           ELSE \E R \in {process_day(TheMachine, row.date, row.close, Dated(ch, row.date))} :
                /\ Processed(R, row.date, row.close, ch)
                /\ backtest' =
                       IF R.M.err # "none"
                       THEN [backtest EXCEPT !.phase = "raised",
                                             !.days = Append(@, Day(row, ch)),
                                             !.calls = Append(@, Day(row, ch))]
                       ELSE Iterated(row, ch, TRUE, R.M.events, R.M.L, more)
    /\ UNCHANGED << config, n_calls, initial_cash >>

(* run() after the loop: the result *)
RunFinish ==
    /\ backtest # NoBacktest
    /\ backtest.phase = "loop"
    /\ backtest.idx = backtest.n_days
    /\ backtest' = [backtest EXCEPT !.phase = "done"]
    /\ last' = Call("run", "none",
                    Some([initial_capital |-> backtest.config.initial_capital,
                          final_equity |-> total(backtest.equity_curve[Len(backtest.equity_curve)]),
                          summary |-> get_summary(events, state)]))
    /\ UNCHANGED << config, cash, shares, positions, state, cost_basis, today, day_events,
                    obs, n_calls, events, initial_cash >>

Run == RunStart \/ RunDay \/ RunFinish

RunSpec == RunInit /\ [][Run]_vars

----------------------------------------------------------------------------
(* What the claims talk about. *)

LedgerOps == {"deposit", "withdraw", "buy_shares", "sell_shares", "open_short_option",
              "close_option_position", "expire_option_worthless",
              "exercise_put_assignment", "exercise_call_assignment"}

IsDay == last.op = "process_day"        \* the latest call was process_day
DayDone == IsDay /\ last.err = "none"   \* and it returned

IsOpen(e) == e.event_type \in {"sell_put", "sell_call"}
Opens == SelectSeq(day_events, IsOpen)
Resolutions == SelectSeq(day_events, LAMBDA e : ~IsOpen(e))
HasEvent(kind) == \E i \in DOMAIN day_events : day_events[i].event_type = kind

(* the event kind the resolution of position pos at underlying u must log *)
ResolutionKind(pos, u) ==
    IF is_put(pos) THEN (IF u < pos.strike THEN "put_assigned" ELSE "put_expired")
    ELSE (IF u > pos.strike THEN "call_assigned" ELSE "call_expired")

----------------------------------------------------------------------------
(* C1: after every successful ledger operation, applied in any order from a *)
(* ledger with cash >= 0, no shares and no positions, shares >= 0 and        *)
(* cash >= 0.                                                                *)
C1_LedgerNonNegative ==
    (last.op \in LedgerOps /\ last.err = "none") => (shares >= 0 /\ cash >= 0)

(* C2: process_day(d, u, chain) removes every position that was open at     *)
(* entry with expiration <= d and logs exactly one event for it, of the     *)
(* kind its moneyness dictates (u = strike expires worthless); positions    *)
(* with expiration > d stay open and log nothing.                           *)
C2_ExpiredAllResolved ==
    IsDay =>
        LET held == obs.entry.L.positions
            due == SelectSeq(held, LAMBDA pos : pos.expiration <= today)
            kept == SelectSeq(held, LAMBDA pos : pos.expiration > today)
        IN  /\ Len(Resolutions) = Len(due)
            /\ \A i \in DOMAIN due :
                   /\ Resolutions[i].event_type = ResolutionKind(due[i], obs.underlying_price)
                   /\ Resolutions[i].details.strike = due[i].strike
                   /\ ~Contains(positions, due[i])
            /\ \A i \in DOMAIN kept : Contains(positions, kept[i])
            /\ Len(positions) = Len(kept) + Len(Opens)

(* C3: a returned process_day opened at most one position, and only as the *)
(* state computed after expiration resolution and refresh allows: a put    *)
(* only in SellingPuts with no short put open, a call only in HoldingStock *)
(* with no short call open, nothing in SellingCalls.                       *)
C3_EntryFollowsRefreshedState ==
    DayDone =>
        LET at_entry == obs.refreshed
        IN  /\ Len(Opens) <= 1
            /\ Len(positions) = Len(at_entry.L.positions) + Len(Opens)
            /\ HasEvent("sell_put") =>
                   at_entry.state = SELLING_PUTS /\ get_short_puts(at_entry.L) = << >>
            /\ HasEvent("sell_call") =>
                   at_entry.state = HOLDING_STOCK /\ get_short_calls(at_entry.L) = << >>
            /\ at_entry.state = SELLING_CALLS =>
                   Opens = << >> /\ positions = at_entry.L.positions

(* a day that had a put assigned and, the refresh having moved the state to *)
(* HoldingStock, opened exactly one position: a call                        *)
C3_Witness ==
    /\ DayDone
    /\ HasEvent("put_assigned")
    /\ HasEvent("sell_call")
    /\ Len(Opens) = 1

(* C4: process_day opens a put with selected strike K only if cash >=       *)
(* K * contracts * multiplier at that moment; with less cash the entry is a *)
(* no-op: no event, no position, cash, shares and positions unchanged.      *)
C4_PutOnlyIfCashSecured ==
    (DayDone /\ obs.sel.kind = PUT /\ ~IsNone(obs.sel.info)) =>
        LET at_entry == obs.refreshed.L
            required == Val(obs.sel.info).strike * contracts * multiplier
        IN  /\ HasEvent("sell_put") => at_entry.cash >= required
            /\ at_entry.cash < required =>
                   Opens = << >> /\ TheLedger = at_entry

(* C5: process_day opens a covered call only if shares >= contracts *       *)
(* multiplier; with fewer shares or no selection it logs nothing and        *)
(* changes nothing; when it opens one it logs sell_call and the state is    *)
(* SellingCalls at the end of the same call.                                *)
C5_CallOnlyIfCovered ==
    (DayDone /\ obs.sel.kind = CALL) =>
        LET at_entry == obs.refreshed.L
            needed == contracts * multiplier
        IN  /\ HasEvent("sell_call") => at_entry.shares >= needed /\ state = SELLING_CALLS
            /\ (at_entry.shares < needed \/ IsNone(obs.sel.info)) =>
                   Opens = << >> /\ TheLedger = at_entry
            /\ Len(get_short_calls(TheLedger)) > Len(get_short_calls(at_entry)) =>
                   HasEvent("sell_call")

(* C6: every sell_call event logged while a cost basis b is recorded has    *)
(* strike >= b and strike >= the day's underlying price.                    *)
C6_CallStrikeCoversBasis ==
    \A i \in DOMAIN day_events :
        LET e == day_events[i]
        IN  (e.event_type = "sell_call" /\ ~IsNone(e.details.cost_basis)) =>
                /\ e.details.strike >= Val(e.details.cost_basis)
                /\ e.details.strike >= e.details.underlying_price

(* C7: in a run driven by process_day alone from a ledger with cash >= 0,   *)
(* no shares and no positions, no call fails with an insufficient-funds or  *)
(* insufficient-shares error.  Stated for the standard contract size, where *)
(* the cash the strategy holds back for a put is the cash the ledger asks   *)
(* for at assignment.                                                       *)
C7_NoInsufficientError ==
    (IsDay /\ multiplier = HardMultiplier) => last.err = "none"

(* C8: resolving an expiring in-the-money short put with strike K, quantity *)
(* q and entry premium p at underlying u takes K*q*m from cash, adds q*m    *)
(* shares, removes the position, records cost basis K - p, reports P&L      *)
(* p*q*m - (K - u)*q*m and logs put_assigned with state_after HoldingStock. *)
C8_PutAssignmentAccounting ==
    IsDay =>
        \A i \in DOMAIN obs.steps :
            LET step == obs.steps[i]
                e == day_events[i]
                K == step.position.strike
                q == step.position.quantity
                p == step.position.entry_price
                u == obs.underlying_price
            IN  (is_put(step.position) /\ u < K) =>
                    /\ e.event_type = "put_assigned"
                    /\ step.after.cash = step.before.cash - K * q * multiplier
                    /\ step.after.shares = step.before.shares + q * multiplier
                    /\ Len(step.after.positions) = Len(step.before.positions) - 1
                    /\ step.after.positions = Remove(step.before.positions, step.position)
                    /\ e.details.cost_basis = Some(K - p)
                    /\ i = Len(obs.steps) => obs.refreshed.cost_basis = Some(K - p)
                    /\ e.details.pnl = p * q * multiplier - (K - u) * q * multiplier
                    /\ e.details.shares_acquired = q * multiplier
                    /\ e.state_after = HOLDING_STOCK

(* a day on which a put was assigned below its strike, the premium not zero *)
C8_Witness ==
    /\ IsDay
    /\ \E i \in DOMAIN obs.steps :
           /\ day_events[i].event_type = "put_assigned"
           /\ obs.steps[i].position.entry_price > 0
           /\ obs.steps[i].after.shares > 0

(* C9: resolving an expiring in-the-money short call with strike K,         *)
(* quantity q and entry premium p that covers all held shares adds K*q*m to *)
(* cash, leaves no shares, removes the position, reports P&L p*q*m, clears  *)
(* the cost basis, and the state at the end of the call is SellingPuts.     *)
C9_CallAssignmentAccounting ==
    IsDay =>
        \A i \in DOMAIN obs.steps :
            LET step == obs.steps[i]
                e == day_events[i]
                K == step.position.strike
                q == step.position.quantity
                p == step.position.entry_price
                u == obs.underlying_price
            IN  (is_call(step.position) /\ u > K /\ step.before.shares = q * multiplier) =>
                    /\ e.event_type = "call_assigned"
                    /\ step.after.cash = step.before.cash + K * q * multiplier
                    /\ step.after.shares = 0
                    /\ step.after.positions = Remove(step.before.positions, step.position)
                    /\ e.details.pnl = p * q * multiplier
                    /\ e.details.shares_sold = q * multiplier
                    /\ i = Len(obs.steps) => obs.refreshed.cost_basis = None
                    /\ (i = Len(obs.steps) /\ DayDone) =>
                           state = SELLING_PUTS /\ cost_basis = None

(* a day on which a call was assigned, shares bought by an earlier put      *)
(* assignment were called away and the recorded cost basis went             *)
C9_Witness ==
    /\ DayDone
    /\ \E i \in DOMAIN obs.steps :
           /\ day_events[i].event_type = "call_assigned"
           /\ obs.steps[i].before.shares > 0
           /\ ~IsNone(obs.entry.cost_basis)
    /\ shares = 0

(* C10: the state refresh yields SellingCalls when shares > 0 and a short   *)
(* call is open, HoldingStock when shares > 0 and none is, SellingPuts when *)
(* shares = 0, whatever the previous state, cash, cost basis or open short  *)
(* puts: it is a function of that pair alone.                               *)
C10_RefreshIsFunctionOfHoldings ==
    last.op = "_update_state" =>
        LET short_call_open == \E i \in DOMAIN positions :
                                   positions[i].option_type = CALL /\ positions[i].side = SHORT
        IN  state = IF shares > 0
                    THEN (IF short_call_open THEN SELLING_CALLS ELSE HOLDING_STOCK)
                    ELSE SELLING_PUTS

(* a refresh that left SellingCalls for HoldingStock with shares, a short   *)
(* put open, a cost basis recorded and no short call                        *)
C10_Witness ==
    /\ last.op = "_update_state"
    /\ obs.entry.state = SELLING_CALLS
    /\ state = HOLDING_STOCK
    /\ shares > 0
    /\ get_short_puts(TheLedger) # << >>
    /\ ~IsNone(cost_basis)

(* C11: process_day called with an empty option chain returns exactly the  *)
(* events of that day's expiration resolution, no sell_put and no          *)
(* sell_call, and opens no position, whatever the state.                   *)
C11_EmptyChainOpensNothing ==
    (DayDone /\ obs.chain_empty) =>
        /\ Opens = << >>
        /\ Len(day_events) = Len(obs.steps)
        /\ day_events = Resolutions
        /\ positions = obs.refreshed.L.positions
        /\ cash = obs.refreshed.L.cash
        /\ shares = obs.refreshed.L.shares

(* an empty-chain day that resolved a position and, after the refresh, was *)
(* in a state that wants an entry                                          *)
C11_Witness ==
    /\ DayDone
    /\ obs.chain_empty
    /\ Len(day_events) > 0
    /\ obs.refreshed.state = HOLDING_STOCK
    /\ get_short_calls(obs.refreshed.L) = << >>

(* C12: nothing is latched by days without an eligible option: on any day *)
(* on which, after resolution and refresh, the state is SellingPuts with   *)
(* no short put open, the selector finds a put and cash covers             *)
(* strike*contracts*multiplier, a sell_put is emitted that day; and in     *)
(* HoldingStock with shares >= contracts*multiplier, a day on which the    *)
(* selector finds a call emits a sell_call.                                *)
C12_EligibleDayOpens ==
    DayDone =>
        LET at_entry == obs.refreshed
            found == ~IsNone(obs.sel.info)
        IN  /\ ( /\ at_entry.state = SELLING_PUTS
                 /\ get_short_puts(at_entry.L) = << >>
                 /\ obs.sel.kind = PUT /\ found
                 /\ at_entry.L.cash >= Val(obs.sel.info).strike * contracts * multiplier )
               => HasEvent("sell_put")
            /\ ( /\ at_entry.state = HOLDING_STOCK
                 /\ obs.sel.kind = CALL /\ found
                 /\ at_entry.L.shares >= contracts * multiplier )
               => HasEvent("sell_call")

(* the latest call was a direct call of the ledger, recorded with the     *)
(* ledger before it                                                       *)
IsBooked == last.op \notin {"init", "process_day", "_update_state"} /\ obs # NoObs
BookedOk(op) == IsBooked /\ last.op = op /\ last.err = "none"
Failed == IsBooked /\ last.err # "none"
Unchanged == TheLedger = obs.before

(* the latest two calls were op1 then op2 and both returned *)
Pair(op1, op2) ==
    /\ BookedOk(op2)
    /\ ~IsNone(obs.prev)
    /\ Val(obs.prev).op = op1
    /\ Val(obs.prev).err = "none"

(* C13: opening a short option with premium p, quantity q at commission 0 *)
(* and expiring it worthless at once leaves cash p*q*m above what it was  *)
(* before the open; the expiration step changes neither cash nor shares,  *)
(* returns P&L p*q*m and leaves the position list as before the open.     *)
C13_OpenThenExpire ==
    ( /\ Pair("open_short_option", "expire_option_worthless")
      /\ Val(obs.prev).args.comm = 0
      /\ Val(obs.ref).held
      /\ Val(obs.ref).value = Val(Val(obs.prev).ret) ) =>
        LET opened == Val(obs.ref).value
            start == Val(obs.prev).before
            credit == opened.entry_price * opened.quantity * multiplier
        IN  /\ cash = start.cash + credit
            /\ cash = obs.before.cash
            /\ shares = obs.before.shares
            /\ last.ret = Some(credit)
            /\ positions = start.positions

(* C14: from zero shares, assignment of a short put of quantity q at      *)
(* strike Kp followed at once by assignment of a short call of quantity q *)
(* at strike Kc returns the share count to zero and changes cash by       *)
(* (Kc - Kp)*q*m over the two steps.                                      *)
C14_AssignmentRoundTrip ==
    ( /\ Pair("exercise_put_assignment", "exercise_call_assignment")
      /\ Val(obs.prev).before.shares = 0
      /\ Val(Val(obs.prev).ref).value.quantity = Val(obs.ref).value.quantity ) =>
        LET put == Val(Val(obs.prev).ref).value
            call == Val(obs.ref).value
        IN  /\ shares = 0
            /\ cash = Val(obs.prev).before.cash
                      + (call.strike - put.strike) * put.quantity * multiplier

(* a round trip through strikes that differ *)
C14_Witness ==
    /\ Pair("exercise_put_assignment", "exercise_call_assignment")
    /\ Val(obs.prev).before.shares = 0
    /\ Val(Val(obs.prev).ref).value.quantity = Val(obs.ref).value.quantity
    /\ Val(Val(obs.prev).ref).value.strike # Val(obs.ref).value.strike
    /\ obs.before.shares > 0

(* C15: a ledger operation that fails leaves cash, shares and positions   *)
(* as they were, and these calls do fail instead of clamping: withdraw of *)
(* more than cash, buy_shares costing more than cash, sell_shares of more *)
(* than held, deposit or withdraw of a negative amount, a put assignment  *)
(* costing more than cash or of a position that is no short put, a call   *)
(* assignment of more shares than held or of a position that is no short  *)
(* call.                                                                  *)
C15_FailureChangesNothing ==
    IsBooked =>
        LET L == obs.before
            a == obs.args
            pos == Val(obs.ref).value
        IN  /\ Failed => Unchanged
            /\ (last.op = "withdraw" /\ a.amount > L.cash) => Failed
            /\ (last.op \in {"deposit", "withdraw"} /\ a.amount < 0) => Failed
            /\ (last.op = "buy_shares" /\ a.quantity * a.price + a.comm > L.cash) => Failed
            /\ (last.op = "sell_shares" /\ a.quantity > L.shares) => Failed
            /\ (last.op = "exercise_put_assignment"
                    /\ (pos.strike * pos.quantity * multiplier > L.cash
                            \/ pos.option_type # PUT \/ pos.side # SHORT)) => Failed
            /\ (last.op = "exercise_call_assignment"
                    /\ (pos.quantity * multiplier > L.shares
                            \/ pos.option_type # CALL \/ pos.side # SHORT)) => Failed

(* a put the ledger holds whose assignment failed for want of cash, some  *)
(* cash being there                                                       *)
C15_Witness ==
    /\ Failed
    /\ last.op = "exercise_put_assignment"
    /\ Val(obs.ref).held
    /\ is_put(Val(obs.ref).value)
    /\ cash > 0
    /\ Len(positions) = 2

(* C16: close_option_position, expire_option_worthless and the two        *)
(* assignments, given a position object the ledger does not hold (never   *)
(* opened there, or removed by an earlier call), fail and leave the       *)
(* ledger unchanged, also when an open position equals it field by field. *)
C16_NotHeldFails ==
    ( /\ IsBooked
      /\ last.op \in {"close_option_position", "expire_option_worthless",
                      "exercise_put_assignment", "exercise_call_assignment"}
      /\ ~Val(obs.ref).held ) =>
        Failed /\ Unchanged

(* the strike notional of the open short puts of a position list *)
RECURSIVE PutNotional(_)
PutNotional(held) ==
    IF held = << >> THEN 0
    ELSE PutNotional(Tail(held))
         + (IF Head(held).option_type = PUT /\ Head(held).side = SHORT
            THEN Head(held).strike * Head(held).quantity * multiplier ELSE 0)

Dist(x, y) == IF x >= y THEN x - y ELSE y - x

(* C18: select_expiration(available, trade_date) returns None when no     *)
(* expiration is at least dte_min days away, and otherwise the expiration *)
(* at least dte_min days away that minimises |days - dte_target|, the     *)
(* first such in the order of the list when several tie.                  *)
C18_ExpirationClosestToTarget ==
    last.op = "select_expiration" =>
        LET av == obs.available_expirations
            days(i) == av[i] - obs.trade_date
            eligible == { i \in DOMAIN av : days(i) >= DteMin }
        IN  IF eligible = {} THEN last.ret = None
            ELSE \E i \in eligible :
                    /\ last.ret = Some(av[i])
                    /\ \A j \in eligible :
                          /\ Dist(days(j), DteTarget) >= Dist(days(i), DteTarget)
                          /\ j < i => Dist(days(j), DteTarget) > Dist(days(i), DteTarget)

(* two expirations equally far from the target, the later one first in    *)
(* the list and returned, behind an expiration that is too near           *)
C18_Witness ==
    /\ last.op = "select_expiration"
    /\ Len(obs.available_expirations) = 3
    /\ obs.available_expirations[1] - obs.trade_date < DteMin
    /\ obs.available_expirations[2] - obs.trade_date = DteTarget + 1
    /\ obs.available_expirations[3] - obs.trade_date = DteTarget - 1
    /\ last.ret = Some(obs.available_expirations[2])

(* the rows select_strike_by_delta may choose among: a delta that is not   *)
(* null, on the out-of-the-money side of the underlying, and for a call   *)
(* with a cost basis, at or above it                                      *)
Permitted(rows, option_type, underlying_price, basis) ==
    { i \in DOMAIN rows :
        /\ ~IsNone(rows[i].delta)
        /\ IF option_type = PUT
           THEN rows[i].strike <= underlying_price
           ELSE /\ rows[i].strike >= underlying_price
                /\ IsNone(basis) \/ rows[i].strike >= Val(basis) }

(* the signed target: -|target| for puts, +|target| for calls *)
SignedTarget(option_type, target_delta) ==
    IF option_type = PUT THEN -Abs(target_delta) ELSE Abs(target_delta)

ChosenRows ==
    LET type_chain == SelectSeq(obs.chain.rows, LAMBDA r : r.option_type = obs.option_type)
        exps == Sorted({type_chain[i].expiration : i \in DOMAIN type_chain})
        chosen == select_expiration(exps, obs.trade_date)
    IN  IF IsNone(chosen) THEN << >>
        ELSE SelectSeq(type_chain, LAMBDA r : r.expiration = Val(chosen))
CarryDelta == obs.chain.has_delta /\ \E i \in DOMAIN ChosenRows : ~IsNone(ChosenRows[i].delta)

(* C20: select_option_from_chain uses the out-of-the-money percentage     *)
(* rule only when the rows of the chosen expiration carry no delta data:  *)
(* when they carry some (a target delta being configured), the strike     *)
(* returned is the one delta selection chooses, or the result is None.    *)
C20_FallbackOnlyWithoutDelta ==
    (last.op = "select_option_from_chain" /\ CarryDelta) =>
        LET by_delta == select_strike_by_delta(obs.chain.has_delta, ChosenRows,
                                               obs.option_type,
                                               IF obs.option_type = PUT THEN Val(put_delta)
                                               ELSE Val(call_delta),
                                               obs.underlying_price, obs.cost_basis)
        IN  \/ last.ret = None
            \/ ~IsNone(by_delta) /\ Val(last.ret).strike = Val(by_delta)

----------------------------------------------------------------------------
(* The orchestrator. *)

InRun == backtest # NoBacktest /\ backtest.built /\ backtest.phase \in {"loop", "done"}

C22_ConstructionSucceeds ==
    (last.op = "WheelBacktest") =>
        /\ last.err = "none"
        /\ cash = backtest.config.initial_capital
        /\ shares = 0
        /\ positions = << >>
        /\ state = SELLING_PUTS
        /\ backtest.selector.dte_target = backtest.config.dte_target
        /\ backtest.transactions = << >>

----------------------------------------------------------------------------
(* The wheel, day after day. *)

HasShortCall == \E i \in DOMAIN positions : is_call(positions[i]) /\ is_short(positions[i])
HasShortPut == \E i \in DOMAIN positions : is_put(positions[i]) /\ is_short(positions[i])

(* C23: at the return of every process_day call, whatever happened during  *)
(* the day, the state equals the state the holdings dictate: SellingCalls   *)
(* iff shares > 0 and a short call is open, HoldingStock iff shares > 0 and *)
(* no short call is open, SellingPuts iff shares = 0.                       *)
C23_StateMatchesHoldingsAtReturn ==
    DayDone =>
        /\ (state = SELLING_CALLS) <=> (shares > 0 /\ HasShortCall)
        /\ (state = HOLDING_STOCK) <=> (shares > 0 /\ ~HasShortCall)
        /\ (state = SELLING_PUTS) <=> (shares = 0)

(* a day on which a call expired worthless and a new call was sold: the    *)
(* expiry set HoldingStock, the entry SellingCalls                         *)
C23_Witness ==
    /\ DayDone
    /\ HasEvent("call_expired")
    /\ HasEvent("sell_call")
    /\ state = SELLING_CALLS
    /\ shares > 0
    /\ HasShortCall

(* the ledgers process_day went through on its way: around every          *)
(* resolution and after the refresh                                        *)
LedgersOnTheWay ==
    IF IsDay
    THEN {obs.entry.L} \cup {obs.steps[i].after : i \in DOMAIN obs.steps}
         \cup (IF obs.reached THEN {obs.refreshed.L} ELSE {})
    ELSE {}

AtMostOnePosition(L) ==
    /\ Len(L.positions) <= 1
    /\ Len(get_short_puts(L)) > 0 => L.shares = 0
    /\ Len(get_short_calls(L)) > 0 => L.shares > 0

(* C24: driven by process_day alone from a ledger with no shares and no    *)
(* positions, the ledger holds at most one open option position in every   *)
(* reachable state; a short put is open only while shares = 0 and a short  *)
(* call only while shares > 0.                                             *)
C24_AtMostOneOpenPosition ==
    /\ AtMostOnePosition(TheLedger)
    /\ \A L \in LedgersOnTheWay : AtMostOnePosition(L)

(* a short call open over the shares of an assigned put *)
C24_Witness ==
    /\ DayDone
    /\ Len(positions) = 1
    /\ HasShortCall
    /\ shares > 0
    /\ CountOf(events, "put_assigned") = 1

(* the kind of the i-th event of the log; whether shares from an assigned  *)
(* put are still held just before the i-th event, going by the log         *)
KindAt(i) == events[i].event_type
HoldsAssignedAt(i) ==
    \E j \in 1..(i - 1) :
        /\ KindAt(j) = "put_assigned"
        /\ \A k \in (j + 1)..(i - 1) : KindAt(k) # "call_assigned"

(* C25: driven by process_day alone from a fresh ledger, the event log     *)
(* follows the wheel cycle: it starts with a sell_put; every put_expired   *)
(* and put_assigned comes right after a sell_put, every call_expired and   *)
(* call_assigned right after a sell_call; a sell_call comes only after a   *)
(* put_assigned not yet followed by a call_assigned, and a sell_put never  *)
(* between a put_assigned and the next call_assigned.                      *)
C25_LogFollowsWheelCycle ==
    /\ events # << >> => KindAt(1) = "sell_put"
    /\ \A i \in DOMAIN events :
        /\ KindAt(i) \in {"put_expired", "put_assigned"} =>
               i > 1 /\ KindAt(i - 1) = "sell_put"
        /\ KindAt(i) \in {"call_expired", "call_assigned"} =>
               i > 1 /\ KindAt(i - 1) = "sell_call"
        /\ KindAt(i) = "sell_call" => HoldsAssignedAt(i)
        /\ KindAt(i) = "sell_put" => ~HoldsAssignedAt(i)

(* a whole turn of the wheel and the start of the next *)
C25_Witness ==
    /\ Len(events) = 5
    /\ KindAt(1) = "sell_put"
    /\ KindAt(2) = "put_assigned"
    /\ KindAt(3) = "sell_call"
    /\ KindAt(4) = "call_assigned"
    /\ KindAt(5) = "sell_put"

(* C26: driven by process_day alone from a fresh ledger, the event log is  *)
(* a contiguous chain of states: the first event has state_before =        *)
(* SellingPuts, every later event's state_before is the state_after of     *)
(* the event before it, within a day or across days, and the state_after   *)
(* of the last event is the machine's current state.                       *)
C26_LogChainsStates ==
    events # << >> =>
        /\ events[1].state_before = SELLING_PUTS
        /\ \A i \in 2..Len(events) : events[i].state_before = events[i - 1].state_after
        /\ events[Len(events)].state_after = state

(* a log that passes through the three states and back, its links made    *)
(* within a day and across days                                            *)
C26_Witness ==
    /\ Len(events) >= 4
    /\ events[2].state_after = HOLDING_STOCK
    /\ events[3].state_after = SELLING_CALLS
    /\ events[3].date = events[2].date
    /\ events[4].state_after = SELLING_PUTS
    /\ events[4].date > events[3].date

(* C27: driven by process_day alone from a fresh ledger, after every call  *)
(* the summary counts balance with the ledger: total_puts_sold =           *)
(* put_assignments + puts_expired_otm + the open short puts, likewise for  *)
(* calls, and call_assignments <= put_assignments <= call_assignments + 1. *)
C27_SummaryBalancesLedger ==
    IsDay =>
        LET summary == get_summary(events, state)
        IN  /\ summary.total_puts_sold =
                   summary.put_assignments + summary.puts_expired_otm
                   + Len(get_short_puts(TheLedger))
            /\ summary.total_calls_sold =
                   summary.call_assignments + summary.calls_expired_otm
                   + Len(get_short_calls(TheLedger))
            /\ summary.call_assignments <= summary.put_assignments
            /\ summary.put_assignments <= summary.call_assignments + 1

(* a second put open after one put and one call were assigned *)
C27_Witness ==
    /\ DayDone
    /\ get_summary(events, state).total_puts_sold = 2
    /\ get_summary(events, state).put_assignments = 1
    /\ get_summary(events, state).total_calls_sold = 1
    /\ get_summary(events, state).call_assignments = 1
    /\ Len(get_short_puts(TheLedger)) = 1

(* what the events from the i-th on add to the cash, and to the shares,    *)
(* going by their details                                                  *)
RECURSIVE CashByLog(_)
CashByLog(i) ==
    IF i > Len(events) THEN 0
    ELSE LET e == events[i]
         IN  (IF e.event_type \in {"sell_put", "sell_call"}
              THEN e.details.premium * e.details.contracts * multiplier - e.details.commission
              ELSE IF e.event_type = "put_assigned"
              THEN -(e.details.strike * e.details.shares_acquired)
              ELSE IF e.event_type = "call_assigned"
              THEN e.details.strike * e.details.shares_sold
              ELSE 0)
             + CashByLog(i + 1)

RECURSIVE SharesByLog(_)
SharesByLog(i) ==
    IF i > Len(events) THEN 0
    ELSE LET e == events[i]
         IN  (IF e.event_type = "put_assigned" THEN e.details.shares_acquired
              ELSE IF e.event_type = "call_assigned" THEN -e.details.shares_sold
              ELSE 0)
             + SharesByLog(i + 1)

(* C28: cash and shares can be rebuilt from the event log: after any       *)
(* sequence of process_day calls from a ledger with initial cash C0, cash  *)
(* = C0 + the sum over sell_put and sell_call of (premium * contracts *    *)
(* multiplier - commission) - the sum over put_assigned of strike *        *)
(* shares_acquired + the sum over call_assigned of strike * shares_sold,   *)
(* and shares = shares acquired - shares sold; expiries add nothing.       *)
C28_CashRebuiltFromLog ==
    /\ cash = initial_cash + CashByLog(1)
    /\ shares = SharesByLog(1)

(* a log of entries that paid a commission, with a put assignment and a   *)
(* call assignment among its events                                        *)
C28_Witness ==
    /\ DayDone
    /\ commission > 0
    /\ CountOf(events, "put_assigned") = 1
    /\ CountOf(events, "call_assigned") = 1
    /\ cash # initial_cash

(* the latest put_assigned event of the log *)
Assignments == SelectSeq(events, LAMBDA e : e.event_type = "put_assigned")
LastAssignment == Assignments[Len(Assignments)]

(* C29: driven by process_day alone from a fresh ledger, after every call  *)
(* a cost basis is recorded iff shares > 0; while shares are held it is    *)
(* the strike less the entry premium of the most recently assigned put,    *)
(* and call expiries and call sales do not change it.                      *)
C29_CostBasisFollowsShares ==
    IsDay =>
        /\ ~IsNone(cost_basis) <=> shares > 0
        /\ shares > 0 =>
               /\ Assignments # << >>
               /\ Val(cost_basis) = LastAssignment.details.strike
                                    - LastAssignment.details.premium_received
        /\ (\A i \in DOMAIN day_events :
                day_events[i].event_type \in {"call_expired", "sell_call"}) =>
               cost_basis = obs.entry.cost_basis

(* a day on which a call expired and the next was sold, the basis of the   *)
(* put assigned earlier still recorded                                     *)
C29_Witness ==
    /\ DayDone
    /\ HasEvent("call_expired")
    /\ HasEvent("sell_call")
    /\ ~HasEvent("put_assigned")
    /\ shares > 0
    /\ ~IsNone(cost_basis)
    /\ cost_basis = obs.entry.cost_basis

----------------------------------------------------------------------------
(* Equity. *)

(* C30: expiration resolution preserves the equity marked at intrinsic     *)
(* value: in any process_day(d, u, chain), get_equity(u) without mark      *)
(* prices is the same after the resolution step as before it (worthless    *)
(* expiry, put assignment and call assignment each leave it unchanged), so *)
(* get_equity(u) at the end of the call exceeds its value at the start by  *)
(* premium * contracts * multiplier - commission when a position was       *)
(* opened that day and by nothing otherwise.                               *)
C30_ResolutionPreservesEquity ==
    IsDay =>
        LET u == obs.underlying_price
        IN  /\ \A i \in DOMAIN obs.steps :
                   get_equity(obs.steps[i].after, u) = get_equity(obs.steps[i].before, u)
            /\ DayDone =>
                   /\ get_equity(obs.refreshed.L, u) = get_equity(obs.entry.L, u)
                   /\ get_equity(TheLedger, u) - get_equity(obs.entry.L, u) =
                          IF Opens = << >> THEN 0
                          ELSE Opens[1].details.premium * contracts * multiplier
                               - Opens[1].details.commission

(* a day that had a put assigned below its strike, with another position   *)
(* left open, and sold a call for a net credit                             *)
C30_Witness ==
    /\ DayDone
    /\ HasEvent("put_assigned")
    /\ HasEvent("sell_call")
    /\ Len(positions) = 2
    /\ get_equity(TheLedger, obs.underlying_price)
           > get_equity(obs.entry.L, obs.underlying_price)

=============================================================================
